---- MODULE Spec2Model ----
(***************************************************************************)
(* Model of the bytecode dispatch loop execBytecode (src/src/vm.c) of the  *)
(* Cyber VM: NaN-boxed values, reference counting, call frames, inline     *)
(* caches and the for-range opcodes.                                       *)
(*                                                                         *)
(* A 64-bit Value is a tuple of four 16-bit limbs <<l0, l1, l2, l3>>, l0   *)
(* the least significant, because the integers of the model checker are    *)
(* 32 bits wide.  Bits 32..34 (the tag) are the low bits of l2, the sign   *)
(* bit and the NaN sentinel 0x7ffc live in l3.                             *)
(***************************************************************************)
EXTENDS Integers, Sequences, FiniteSets, TLC

VARIABLES
    code,       \* the bytecode chunk: a sequence of bytes, mutable (inline caches)
    pc,         \* register pc: index into code (address of the chunk is 0)
    stack,      \* register stack: the frame pointer, an index into slots
    slots,      \* the evaluation stack memory the frame pointer points into
    heap,       \* heap objects by address: header {typeId, rc}, list payload
    refCounts,  \* vm->refCounts (TRACK_GLOBAL_RC)
    status,     \* "running", "returned", "fatal" (zFatal), "crash" (wild fetch), "hang"
    resCode,    \* the ResultCode returned, NoCode while running
    curStack,   \* vm->curStack
    hostCalls,  \* history: the host functions invoked, in order
    visited,    \* history: the loop-variable values with which a for-range body was entered
    lastOp,     \* history: the handler that ran last
    lastPc,     \* history: the pc at which it ran
    frames,     \* history: the calls of CallFuncIC that have not returned, innermost last
    helperCode, \* history: the result code the external helper called last reported
    cachedFor,  \* history: per call site, the type id its inline cache was populated for
    probe,      \* the Value word under test (value-layer specification)
    probeOut,   \* the classification computed for probe
    encIn,      \* the integer or boolean to encode (value-layer specification)
    encOut,     \* its Value word and the projection of that word
    rcLog       \* history of the retain / release calls (reference-count specification)

valVars == <<probe, probeOut, encIn, encOut, rcLog>>

vmVars == <<code, pc, stack, slots, heap, refCounts, status, resCode, curStack,
            hostCalls, visited, lastOp, lastPc, frames, helperCode, cachedFor>>

vars == <<code, pc, stack, slots, heap, refCounts, status, resCode, curStack,
          hostCalls, visited, lastOp, lastPc, frames, helperCode, cachedFor,
          probe, probeOut, encIn, encOut, rcLog>>

(***************************************************************************)
(* Bit operations on 16-bit limbs and on words.                            *)
(***************************************************************************)
Limb == 256 * 256

RECURSIVE BitAnd(_, _)
BitAnd(a, b) ==
    IF a <= 0 \/ b <= 0 THEN 0
    ELSE (a % 2) * (b % 2) + 2 * BitAnd(a \div 2, b \div 2)

RECURSIVE BitOr(_, _)
BitOr(a, b) ==
    IF a <= 0 THEN b
    ELSE IF b <= 0 THEN a
    ELSE (IF a % 2 = 1 \/ b % 2 = 1 THEN 1 ELSE 0) + 2 * BitOr(a \div 2, b \div 2)

WordAnd(v, w) == <<BitAnd(v[1], w[1]), BitAnd(v[2], w[2]), BitAnd(v[3], w[3]), BitAnd(v[4], w[4])>>
WordOr(v, w) == <<BitOr(v[1], w[1]), BitOr(v[2], w[2]), BitOr(v[3], w[3]), BitOr(v[4], w[4])>>
WordNot(v) == <<Limb - 1 - v[1], Limb - 1 - v[2], Limb - 1 - v[3], Limb - 1 - v[4]>>

\* (uint64_t)n for an int32_t n: the conversion sign-extends.
I32ToU64(n) ==
    IF n >= 0 THEN <<n % Limb, n \div Limb, 0, 0>>
    ELSE <<Limb - 1 - ((-(n + 1)) % Limb), Limb - 1 - ((-(n + 1)) \div Limb), Limb - 1, Limb - 1>>

\* (int32_t)(v & 0xffffffff): the low 32 bits read as two's complement.
LowI32(v) ==
    IF v[2] < 32768 THEN v[2] * Limb + v[1]
    ELSE -((Limb - 1 - v[2]) * Limb + (Limb - 1 - v[1])) - 1

MinInt32 == 0 - 2147483647 - 1
MaxInt32 == 2147483647

\* int32_t addition and subtraction.  Signed overflow is undefined: the
\* handlers below take either the two's-complement result or a trap.
AddOverflows(x, y) ==
    \/ x > 0 /\ y > 0 /\ x > MaxInt32 - y
    \/ x < 0 /\ y < 0 /\ x < MinInt32 - y
WrapAdd(x, y) ==
    IF x > 0 /\ y > 0 /\ x > MaxInt32 - y THEN (x + MinInt32) + (y + MinInt32)
    ELSE IF x < 0 /\ y < 0 /\ x < MinInt32 - y THEN (x - MinInt32) + (y - MinInt32)
    ELSE x + y
SubOverflows(x, y) ==
    \/ x >= 0 /\ y < 0 /\ x > MaxInt32 + y
    \/ x < 0 /\ y > 0 /\ x < MinInt32 + y
WrapSub(x, y) ==
    IF x >= 0 /\ y < 0 /\ x > MaxInt32 + y THEN (x + MinInt32) - (y - MinInt32)
    ELSE IF x < 0 /\ y > 0 /\ x < MinInt32 + y THEN (x - MinInt32) - (y + MinInt32)
    ELSE x - y

\* (uintptr_t)p for a small address p, and back (Wild when the word is no such address).
Wild == 0 - 1
PtrWord(p) == <<p % Limb, p \div Limb, 0, 0>>
WordPtr(v) == IF v[3] = 0 /\ v[4] = 0 /\ v[2] < 16384 THEN v[2] * Limb + v[1] ELSE Wild

(***************************************************************************)
(* Value masks and constructors, vm.c:4-28.                                *)
(***************************************************************************)
SIGN_MASK == <<0, 0, 0, 32768>>
TAGGED_VALUE_MASK == <<0, 0, 0, 32764>>
TAG_MASK == 7
TAGGED_PRIMITIVE_MASK == WordOr(TAGGED_VALUE_MASK, <<0, 0, TAG_MASK, 0>>)
TAG_NONE == 0
TAG_BOOLEAN == 1
TAG_ERROR == 2
TAG_INTEGER == 7
INTEGER_MASK == WordOr(TAGGED_VALUE_MASK, <<0, 0, TAG_INTEGER, 0>>)
BOOLEAN_MASK == WordOr(TAGGED_VALUE_MASK, <<0, 0, TAG_BOOLEAN, 0>>)
FALSE_MASK == BOOLEAN_MASK
TRUE_BIT_MASK == <<1, 0, 0, 0>>
TRUE_MASK == WordOr(BOOLEAN_MASK, TRUE_BIT_MASK)
NONE_MASK == WordOr(TAGGED_VALUE_MASK, <<0, 0, TAG_NONE, 0>>)
POINTER_MASK == WordOr(TAGGED_VALUE_MASK, SIGN_MASK)

\* The operand n is an int32_t; the | with the 64-bit mask converts it to uint64_t.
VALUE_INTEGER(n) == WordOr(INTEGER_MASK, I32ToU64(n))
VALUE_BOOLEAN(b) == IF b THEN TRUE_MASK ELSE FALSE_MASK
VALUE_NONE == NONE_MASK
VALUE_TRUE == TRUE_MASK
VALUE_FALSE == FALSE_MASK

(***************************************************************************)
(* Doubles.  The model holds the doubles whose value is an integer of      *)
(* magnitude below 2^20; F64Bits is the IEEE-754 binary64 encoding         *)
(* (sign, 11-bit biased exponent, 52-bit mantissa) and F64Val its inverse. *)
(***************************************************************************)
Pow2(e) == 2 ^ e

\* The exponent of the leading bit of n, 1 <= n < 2^21.
Log2(n) == CHOOSE e \in 0 .. 20 : 2 ^ e <= n /\ n < 2 ^ (e + 1)

F64Bits(n) ==
    LET m  == IF n < 0 THEN -n ELSE n
        e  == Log2(m)
        fr == (m - Pow2(e)) * Pow2(20 - e)      \* the top 20 mantissa bits
        hi == (1023 + e) * 16 + fr \div Limb
    IN  IF m = 0 THEN <<0, 0, 0, 0>>
        ELSE <<0, 0, fr % Limb, (IF n < 0 THEN 32768 ELSE 0) + hi>>

F64Val(v) ==
    LET neg == v[4] >= 32768
        ex  == (v[4] % 32768) \div 16
        fr  == (v[4] % 16) * Limb + v[3]
        e   == ex - 1023
        m   == Pow2(e) + fr \div Pow2(20 - e)     \* 0 <= e <= 20
    IN  IF ex = 0 THEN 0 ELSE IF neg THEN -m ELSE m

VALUE_NUMBER(n) == F64Bits(n)
VALUE_AS_NUMBER(v) == F64Val(v)

(***************************************************************************)
(* Value tests and projections, vm.c:30-42.                                *)
(***************************************************************************)
VALUE_AS_HEAPOBJECT(v) == WordPtr(WordAnd(v, WordNot(POINTER_MASK)))
\* The projection reading the low 16 bits only: a faulty variant.
VALUE_AS_INTEGER_Low16(v) == v[1]
VALUE_AS_INTEGER(v) == LowI32(v)
VALUE_AS_BOOLEAN(v) == v = TRUE_MASK
\* VALUE_IS_BOOLEAN without SIGN_MASK in the mask: a faulty variant.
VALUE_IS_BOOLEAN_IgnoringSign(v) == WordAnd(v, TAGGED_PRIMITIVE_MASK) = BOOLEAN_MASK
VALUE_IS_BOOLEAN(v) == WordAnd(v, WordOr(TAGGED_PRIMITIVE_MASK, SIGN_MASK)) = BOOLEAN_MASK
VALUE_IS_POINTER(v) == WordAnd(v, POINTER_MASK) = POINTER_MASK
VALUE_IS_NONE(v) == v = NONE_MASK
VALUE_ASSUME_NOT_BOOL_TO_BOOL(v) == VALUE_IS_NONE(v)
VALUE_IS_NUMBER(v) == WordAnd(v, TAGGED_VALUE_MASK) # TAGGED_VALUE_MASK
VALUE_BOTH_NUMBERS(v1, v2) == VALUE_IS_NUMBER(v1) /\ VALUE_IS_NUMBER(v2)
VALUE_GET_TAG(v) == BitAnd(v[3], TAG_MASK)

IsIntegerTagged(v) == ~VALUE_IS_NUMBER(v) /\ ~VALUE_IS_POINTER(v) /\ VALUE_GET_TAG(v) = TAG_INTEGER

TYPE_NUMBER == 8
TYPE_LIST == 9

getPrimitiveTypeId(v) == IF VALUE_IS_NUMBER(v) THEN TYPE_NUMBER ELSE VALUE_GET_TAG(v)


(***************************************************************************)
(* Opcodes: the position of the handler in the jump table, vm.c:135-230.   *)
(***************************************************************************)
CodeConstOp == 0
CodeConstI8 == 1
CodeConstI8Int == 2
CodeAdd == 3
CodeSub == 4
CodeTrue == 5
CodeFalse == 6
CodeNone == 7
CodeCopy == 9
CodeCopyReleaseDst == 10
CodeCopyRetainSrc == 13
CodeList == 16
CodeJumpNotCond == 20
CodeJump == 22
CodeRelease == 23
CodeCallObjSym == 25
CodeCallObjNativeFuncIC == 26
CodeCallSym == 28
CodeCallFuncIC == 29
CodeCallNativeFuncIC == 30
CodeRet1 == 31
CodeRet0 == 32
CodeSetInitN == 54
CodeJumpNotNone == 80
CodeAddInt == 81
CodeSubInt == 82
CodeLessInt == 83
CodeForRangeInit == 84
CodeForRange == 85
CodeForRangeReverse == 86
CodeEnd == 93

\* The opcodes whose handler prints "Unsupported" and calls zFatal.
UnsupportedOps ==
    {8, 11, 12, 14, 15, 17, 18, 19, 21, 24, 27} \cup (32 .. 53) \cup (55 .. 79) \cup (86 .. 92)

RES_CODE_SUCCESS == 0
RES_CODE_PANIC == 4
RES_CODE_UNKNOWN == 5
\* The codes with which a helper reports a failure.
FailCodes == {RES_CODE_PANIC, RES_CODE_UNKNOWN}
NoCode == 0 - 1

(***************************************************************************)
(* Bounds of the model.                                                    *)
(***************************************************************************)
NumObjs == 2        \* heap addresses 8, 16, ...
StackSize == 16     \* slots of the evaluation stack; stackEndPtr is one past the last
MaxSeq == 2         \* length of the straight-line reference-counting programs
MaxNum == 5         \* for-range operands range over -MaxNum .. MaxNum
MaxInt == 2         \* integer operands range over -MaxInt .. MaxInt, besides the int32 limits
MaxEnc == 40        \* integers -MaxEnc .. MaxEnc are encoded, besides the limb and int32 limits
MaxTagProbe == 8    \* the limb holding the tag of a probed word ranges over 0 .. MaxTagProbe

Addrs == {8 * i : i \in 1 .. NumObjs}
stackEndPtr == StackSize

(***************************************************************************)
(* Bytecode reads, vm.c:121-123.  Byte k of the instruction at pc.         *)
(***************************************************************************)
InCode(c, p) == p >= 0 /\ p < Len(c)
ByteAt(c, p, k) == IF InCode(c, p + k) THEN c[p + k + 1] ELSE 0
READ_U16(c, p, k) == ByteAt(c, p, k) + 256 * ByteAt(c, p, k + 1)
READ_I16(c, p, k) == IF READ_U16(c, p, k) >= 32768 THEN READ_U16(c, p, k) - Limb ELSE READ_U16(c, p, k)
\* The model's addresses are below 2^16, the upper four bytes are read and must be 0.
READ_U48(c, p, k) ==
    IF ByteAt(c, p, k + 2) = 0 /\ ByteAt(c, p, k + 3) = 0 /\ ByteAt(c, p, k + 4) = 0 /\ ByteAt(c, p, k + 5) = 0
    THEN READ_U16(c, p, k) ELSE Wild

Op == ByteAt(code, pc, 0)
Arg(k) == ByteAt(code, pc, k)
Running == status = "running" /\ InCode(code, pc) /\ stack >= 0 /\ stack < StackSize

\* stack[i] of the C code: slot i of the current frame.
Reg(i) == slots[stack + i + 1]
SetReg(s, i, v) == [s EXCEPT ![stack + i + 1] = v]
SetByte(c, p, b) == [c EXCEPT ![p + 1] = b]

(***************************************************************************)
(* Heap objects and reference counting, vm.c:44-94.                        *)
(* An object is [state, typeId, rc, elems, frees]: state is "unalloc",     *)
(* "live" or "freed", rc holds the bits of the uint32 header field read as *)
(* an int32 (so 0 - 1 is -1), elems the Values a list owns, frees the      *)
(* number of times zFreeObject was given the object.                       *)
(* A memory M is [heap, refCounts, wild]; wild records an access through a *)
(* pointer Value that addresses no object.                                 *)
(* The header of a freed object is indeterminate: a retain or release      *)
(* through a dangling pointer reads g as its rc.                           *)
(***************************************************************************)
FreedRcReads == {0, 1}

PointerTo(a) == WordOr(POINTER_MASK, PtrWord(a))

HeaderRc(o, g) == IF o.state = "live" THEN o.rc ELSE g

RECURSIVE release(_, _, _)
RECURSIVE zFreeObject(_, _, _)
RECURSIVE releaseAll(_, _, _)

\* The destructor of the object model (spec 4.2): release the owned children,
\* then reclaim the memory.
zFreeObject(M, a, g) ==
    LET M1 == releaseAll(M, M.heap[a].elems, g)
    IN  [M1 EXCEPT !.heap[a].state = "freed",
                   !.heap[a].frees = @ + 1]

releaseAll(M, vals, g) ==
    IF vals = <<>> THEN M
    ELSE releaseAll(release(M, Head(vals), g), Tail(vals), g)

\* release freeing one decrement too late: a faulty variant.
releaseFreesAtOne(M, val, g) ==
    IF VALUE_IS_POINTER(val) THEN
        LET a == VALUE_AS_HEAPOBJECT(val)
        IN  IF a \notin Addrs THEN [M EXCEPT !.wild = TRUE]
            ELSE LET rc1 == HeaderRc(M.heap[a], g) - 1
                     M1  == [M EXCEPT !.heap[a].rc = rc1, !.refCounts = @ - 1]
                 IN  IF rc1 = 0 - 1 THEN zFreeObject(M1, a, g) ELSE M1
    ELSE M

release(M, val, g) ==
    IF VALUE_IS_POINTER(val) THEN
        LET a == VALUE_AS_HEAPOBJECT(val)
        IN  IF a \notin Addrs THEN [M EXCEPT !.wild = TRUE]
            ELSE LET rc1 == HeaderRc(M.heap[a], g) - 1
                     M1  == [M EXCEPT !.heap[a].rc = rc1, !.refCounts = @ - 1]
                 IN  IF rc1 = 0 THEN zFreeObject(M1, a, g) ELSE M1
    ELSE M

\* retain without the global counter: a faulty variant.
retainUntracked(M, val, g) ==
    IF VALUE_IS_POINTER(val) THEN
        LET a == VALUE_AS_HEAPOBJECT(val)
        IN  IF a \notin Addrs THEN [M EXCEPT !.wild = TRUE]
            ELSE [M EXCEPT !.heap[a].rc = HeaderRc(M.heap[a], g) + 1]
    ELSE M

retain(M, val, g) ==
    IF VALUE_IS_POINTER(val) THEN
        LET a == VALUE_AS_HEAPOBJECT(val)
        IN  IF a \notin Addrs THEN [M EXCEPT !.wild = TRUE]
            ELSE [M EXCEPT !.heap[a].rc = HeaderRc(M.heap[a], g) + 1, !.refCounts = @ + 1]
    ELSE M

Mem == [heap |-> heap, refCounts |-> refCounts, wild |-> FALSE]

LiveObj(h, val) == VALUE_AS_HEAPOBJECT(val) \in Addrs /\ h[VALUE_AS_HEAPOBJECT(val)].state = "live"

getTypeId(h, val) ==
    IF VALUE_IS_POINTER(val) THEN h[VALUE_AS_HEAPOBJECT(val)].typeId
    ELSE getPrimitiveTypeId(val)

\* The type ids getTypeId can give: the header of a freed object, or of no
\* object, is indeterminate.
TypeIdReads(h, val) ==
    IF VALUE_IS_POINTER(val) /\ ~LiveObj(h, val) THEN {TAG_NONE, TYPE_LIST}
    ELSE {getTypeId(h, val)}



(***************************************************************************)
(* Collaborators outside vm.c, modelled from the specification.            *)
(***************************************************************************)
\* Method table (spec 4.4): the native method of (typeId, symId), NOT_FOUND otherwise.
NOT_FOUND == 0
ListSizeFn == 100
IntAbsFn == 101
\* A host type whose 32-bit id has the low half of the list type's id.
WideType == Limb + TYPE_LIST
WideSizeFn == 103
MethodOf(typeId, symId) ==
    IF symId = 0 /\ typeId = TYPE_LIST THEN ListSizeFn
    ELSE IF symId = 0 /\ typeId = WideType THEN WideSizeFn
    ELSE IF symId = 0 /\ typeId = TAG_INTEGER THEN IntAbsFn
    ELSE NOT_FOUND

\* Function-symbol table (spec 4.4): symbol 0 is a bytecode function, 1 a host
\* function, 3 a bytecode function whose locals do not fit the stack; any
\* other symbol is unknown.
HostFn == 102
NoFunc == [kind |-> "none"]
FuncOf(symId) ==
    IF symId = 0 THEN [kind |-> "func", pc |-> 12, numLocals |-> 4]
    ELSE IF symId = 1 THEN [kind |-> "native", fn |-> HostFn]
    ELSE IF symId = 3 THEN [kind |-> "func", pc |-> 12, numLocals |-> 255]
    ELSE NoFunc

\* The Values a host function can return.
HostResults == {VALUE_NONE, VALUE_INTEGER(5)}

\* Numeric promotion of a non-double operand (spec 4.7): an integer-tagged
\* Value becomes the double of its payload.
zOtherToF64(v) == VALUE_AS_INTEGER(v)

toF64(v) == IF VALUE_IS_NUMBER(v) THEN VALUE_AS_NUMBER(v) ELSE zOtherToF64(v)

(***************************************************************************)
(* The dispatch loop, vm.c:120-665: one action per opcode handler.         *)
(***************************************************************************)
Ran(op) == lastOp' = op /\ lastPc' = pc

SetMem(M) ==
    /\ heap' = M.heap
    /\ refCounts' = M.refCounts
    /\ status' = IF M.wild THEN "crash" ELSE status

Return(c) == status' = "returned" /\ resCode' = c

Fatal == status' = "fatal" /\ resCode' = resCode

\* A failing helper whose code is not the one returned: a faulty variant.
HelperFailedAsPanic(c) ==
    /\ helperCode' = c
    /\ Return(RES_CODE_PANIC)
    /\ UNCHANGED <<slots, pc>>

\* if (res.code != RES_CODE_SUCCESS) return res.code;
HelperFailed(c) ==
    /\ helperCode' = c
    /\ Return(c)
    /\ UNCHANGED <<slots, pc>>

\* zEvalAddFallback, zEvalSubFallback (spec 4.7): two numeric operands are
\* promoted to doubles; operator methods are not modelled; anything else
\* is a type error.
IsNumeric(v) == VALUE_IS_NUMBER(v) \/ IsIntegerTagged(v)
EvalFallback(left, right, sub) ==
    IF IsNumeric(left) /\ IsNumeric(right)
    THEN {[code |-> RES_CODE_SUCCESS,
           val  |-> VALUE_NUMBER(IF sub THEN toF64(left) - toF64(right) ELSE toF64(left) + toF64(right))]}
    ELSE {[code |-> c, val |-> VALUE_NONE] : c \in FailCodes}

Arith(sub) ==
    \E left \in {Reg(Arg(1))}, right \in {Reg(Arg(2))} :
       IF VALUE_BOTH_NUMBERS(left, right) THEN
          /\ slots' = SetReg(slots, Arg(3),
                             VALUE_NUMBER(IF sub THEN VALUE_AS_NUMBER(left) - VALUE_AS_NUMBER(right)
                                          ELSE VALUE_AS_NUMBER(left) + VALUE_AS_NUMBER(right)))
          /\ pc' = pc + 4
          /\ UNCHANGED <<status, resCode, helperCode>>
       ELSE
          \E res \in EvalFallback(left, right, sub) :
             IF res.code # RES_CODE_SUCCESS THEN HelperFailed(res.code)
             ELSE /\ helperCode' = res.code
                  /\ slots' = SetReg(slots, Arg(3), res.val)
                  /\ pc' = pc + 4
                  /\ UNCHANGED <<status, resCode>>

Add ==
    /\ Running /\ Op = CodeAdd
    /\ Arith(FALSE)
    /\ Ran("Add")
    /\ UNCHANGED <<code, stack, heap, refCounts, curStack, hostCalls, visited, frames, cachedFor, valVars>>

Sub ==
    /\ Running /\ Op = CodeSub
    /\ Arith(TRUE)
    /\ Ran("Sub")
    /\ UNCHANGED <<code, stack, heap, refCounts, curStack, hostCalls, visited, frames, cachedFor, valVars>>

\* vm->constPtr: the constant pool of the chunk.
constPtr == <<VALUE_NUMBER(2), VALUE_TRUE>>

ConstOp ==
    /\ Running /\ Op = CodeConstOp
    /\ Arg(1) + 1 \in DOMAIN constPtr
    /\ slots' = SetReg(slots, Arg(2), constPtr[Arg(1) + 1])
    /\ pc' = pc + 3
    /\ Ran("ConstOp")
    /\ UNCHANGED <<code, stack, heap, refCounts, status, resCode, curStack, hostCalls, visited, frames, helperCode, cachedFor, valVars>>

\* (int8_t)pc[1]
Int8(b) == IF b >= 128 THEN b - 256 ELSE b

ConstI8 ==
    /\ Running /\ Op = CodeConstI8
    /\ slots' = SetReg(slots, Arg(2), VALUE_NUMBER(Int8(Arg(1))))
    /\ pc' = pc + 3
    /\ Ran("ConstI8")
    /\ UNCHANGED <<code, stack, heap, refCounts, status, resCode, curStack, hostCalls, visited, frames, helperCode, cachedFor, valVars>>

\* stack[pc[1]] = v; pc += 2
StoreLiteral(v) ==
    /\ slots' = SetReg(slots, Arg(1), v)
    /\ pc' = pc + 2
    /\ UNCHANGED <<code, stack, heap, refCounts, status, resCode, curStack, hostCalls, visited, frames, helperCode, cachedFor, valVars>>

True ==
    /\ Running /\ Op = CodeTrue
    /\ StoreLiteral(VALUE_TRUE)
    /\ Ran("True")

False ==
    /\ Running /\ Op = CodeFalse
    /\ StoreLiteral(VALUE_FALSE)
    /\ Ran("False")

None ==
    /\ Running /\ Op = CodeNone
    /\ StoreLiteral(VALUE_NONE)
    /\ Ran("None")

Jump ==
    /\ Running /\ Op = CodeJump
    /\ pc' = pc + READ_I16(code, pc, 1)
    /\ Ran("Jump")
    /\ UNCHANGED <<code, stack, slots, heap, refCounts, status, resCode, curStack, hostCalls, visited, frames, helperCode, cachedFor, valVars>>

JumpNotNone ==
    /\ Running /\ Op = CodeJumpNotNone
    /\ pc' = IF ~VALUE_IS_NONE(Reg(Arg(3))) THEN pc + READ_I16(code, pc, 1) ELSE pc + 4
    /\ Ran("JumpNotNone")
    /\ UNCHANGED <<code, stack, slots, heap, refCounts, status, resCode, curStack, hostCalls, visited, frames, helperCode, cachedFor, valVars>>

ConstI8Int ==
    /\ Running /\ Op = CodeConstI8Int
    /\ slots' = SetReg(slots, Arg(2), VALUE_INTEGER(Arg(1)))
    /\ pc' = pc + 3
    /\ Ran("ConstI8Int")
    /\ UNCHANGED <<code, stack, heap, refCounts, status, resCode, curStack, hostCalls, visited, frames, helperCode, cachedFor, valVars>>

Copy ==
    /\ Running /\ Op = CodeCopy
    /\ slots' = SetReg(slots, Arg(2), Reg(Arg(1)))
    /\ pc' = pc + 3
    /\ Ran("Copy")
    /\ UNCHANGED <<code, stack, heap, refCounts, status, resCode, curStack, hostCalls, visited, frames, helperCode, cachedFor, valVars>>

CopyReleaseDst ==
    /\ Running /\ Op = CodeCopyReleaseDst
    /\ \E g \in FreedRcReads :
       \E M1 \in {release(Mem, Reg(Arg(2)), g)} :
          /\ SetMem(M1)
          /\ slots' = SetReg(slots, Arg(2), Reg(Arg(1)))
    /\ pc' = pc + 3
    /\ Ran("CopyReleaseDst")
    /\ UNCHANGED <<code, stack, resCode, curStack, hostCalls, visited, frames, helperCode, cachedFor, valVars>>

CopyRetainSrc ==
    /\ Running /\ Op = CodeCopyRetainSrc
    /\ \E g \in FreedRcReads :
       \E M1 \in {retain(Mem, Reg(Arg(1)), g)} :
          /\ SetMem(M1)
          /\ slots' = SetReg(slots, Arg(2), Reg(Arg(1)))
    /\ pc' = pc + 3
    /\ Ran("CopyRetainSrc")
    /\ UNCHANGED <<code, stack, resCode, curStack, hostCalls, visited, frames, helperCode, cachedFor, valVars>>

\* zAllocList (spec 4.2, 4.5): a new list object with rc 1 that takes over the
\* numElems Values without retaining them, at an address that holds no live
\* object; OutOfMemory otherwise.
List ==
    /\ Running /\ Op = CodeList
    /\ LET startLocal == Arg(1)
           numElems   == Arg(2)
           elems      == [i \in 1 .. numElems |-> Reg(startLocal + i - 1)]
       IN  \/ \E a \in Addrs :
                /\ heap[a].state # "live"
                /\ heap' = [heap EXCEPT ![a] = [state |-> "live", typeId |-> TYPE_LIST, rc |-> 1,
                                                elems |-> elems, frees |-> 0]]
                /\ refCounts' = refCounts + 1
                /\ helperCode' = RES_CODE_SUCCESS
                /\ slots' = SetReg(slots, Arg(3), PointerTo(a))
                /\ pc' = pc + 4
                /\ UNCHANGED <<status, resCode>>
           \/ \E c \in FailCodes :
                /\ HelperFailed(c)
                /\ UNCHANGED <<heap, refCounts>>
    /\ Ran("List")
    /\ UNCHANGED <<code, stack, curStack, hostCalls, visited, frames, cachedFor, valVars>>

JumpNotCond ==
    /\ Running /\ Op = CodeJumpNotCond
    /\ LET jump    == READ_U16(code, pc, 1)
           cond    == Reg(Arg(3))
           condVal == IF VALUE_IS_BOOLEAN(cond) THEN VALUE_AS_BOOLEAN(cond)
                      ELSE VALUE_ASSUME_NOT_BOOL_TO_BOOL(cond)
       IN  pc' = IF ~condVal THEN pc + jump ELSE pc + 4
    /\ Ran("JumpNotCond")
    /\ UNCHANGED <<code, stack, slots, heap, refCounts, status, resCode, curStack, hostCalls, visited, frames, helperCode, cachedFor, valVars>>

Release ==
    /\ Running /\ Op = CodeRelease
    /\ \E g \in FreedRcReads : \E M1 \in {release(Mem, Reg(Arg(1)), g)} : SetMem(M1)
    /\ pc' = pc + 2
    /\ Ran("Release")
    /\ UNCHANGED <<code, stack, slots, resCode, curStack, hostCalls, visited, frames, helperCode, cachedFor, valVars>>


\* Bytes bs written at p, p + 1, ...
SetBytes(c, p, bs) ==
    [i \in 1 .. Len(c) |-> IF i > p /\ i <= p + Len(bs) THEN bs[i - p] ELSE c[i]]

U16Bytes(n) == <<n % 256, (n \div 256) % 256>>
U48Bytes(n) == <<n % 256, n \div 256, 0, 0, 0, 0>>

HostCall(fn, recv, argStart, numArgs) ==
    [fn |-> fn, recv |-> recv, args |-> argStart, nargs |-> numArgs]

\* The return of a native callee that stores its Value whatever numRet is:
\* a faulty variant.
NativeReturnAlwaysWrites(startLocal, numRet, len) ==
    \E res \in HostResults :
       /\ slots' = SetReg(slots, startLocal, res)
       /\ pc' = pc + len
       /\ UNCHANGED <<status, resCode>>

\* The return of a native callee: its Value goes to stack[startLocal] when
\* numRet is 1, nowhere when it is 0; any other numRet is fatal.
NativeReturn(startLocal, numRet, len) ==
    \E res \in HostResults :
       IF numRet = 1 THEN
          /\ slots' = SetReg(slots, startLocal, res)
          /\ pc' = pc + len
          /\ UNCHANGED <<status, resCode>>
       ELSE IF numRet = 0 THEN
          /\ pc' = pc + len
          /\ UNCHANGED <<slots, status, resCode>>
       ELSE
          /\ Fatal
          /\ UNCHANGED <<slots, pc>>

\* The cache miss that also advances pc past the site: a faulty variant.
DeoptimizeAndSkip ==
    /\ code' = SetByte(code, pc, CodeCallObjSym)
    /\ pc' = pc + 14
    /\ UNCHANGED <<slots, status, resCode, curStack, hostCalls>>

\* The cache miss of an IC call site: the opcode byte goes back to the generic form.
Deoptimize ==
    /\ code' = SetByte(code, pc, CodeCallObjSym)
    /\ UNCHANGED <<pc, slots, status, resCode, curStack, hostCalls>>

\* zCallObjSym (spec 4.4, 4.6): resolve the method of (typeId, symId); NotFound
\* is a panic; a native method is called as by the IC variant, and the site is
\* rewritten to CallObjNativeFuncIC with the resolved (typeId, methodPtr).
CallObjSym ==
    /\ Running /\ Op = CodeCallObjSym
    /\ LET startLocal == Arg(1)
           numArgs    == Arg(2)
           numRet     == Arg(3)
           symId      == Arg(4)
           recv       == Reg(startLocal + numArgs + 4 - 1)
       IN  \E typeId \in TypeIdReads(heap, recv) :
             LET fn == MethodOf(typeId, symId)
             IN  IF fn = NOT_FOUND THEN
                    /\ HelperFailed(RES_CODE_PANIC)
                    /\ UNCHANGED <<code, hostCalls, curStack, cachedFor>>
                 ELSE
                    /\ helperCode' = RES_CODE_SUCCESS
                    /\ cachedFor' = (pc :> typeId) @@ cachedFor
                    /\ curStack' = stack
                    /\ hostCalls' = Append(hostCalls, HostCall(fn, recv, stack + startLocal + 4, numArgs))
                    /\ code' = SetBytes(SetByte(code, pc, CodeCallObjNativeFuncIC), pc + 6,
                                        U48Bytes(fn) \o U16Bytes(typeId))
                    /\ NativeReturn(startLocal, numRet, 14)
    /\ Ran("CallObjSym")
    /\ UNCHANGED <<stack, heap, refCounts, visited, frames, valVars>>

CallObjNativeFuncIC ==
    /\ Running /\ Op = CodeCallObjNativeFuncIC
    /\ LET startLocal   == Arg(1)
           numArgs      == Arg(2)
           recv         == Reg(startLocal + numArgs + 4 - 1)
           cachedTypeId == READ_U16(code, pc, 12)
       IN  \E typeId \in TypeIdReads(heap, recv) :
             IF typeId = cachedTypeId THEN
                /\ curStack' = stack
                /\ LET fn     == READ_U48(code, pc, 6)
                       numRet == Arg(3)
                   IN  /\ hostCalls' = Append(hostCalls, HostCall(fn, recv, stack + startLocal + 4, numArgs))
                       /\ NativeReturn(startLocal, numRet, 14)
                /\ UNCHANGED code
             ELSE
                Deoptimize
    /\ Ran("CallObjNativeFuncIC")
    /\ UNCHANGED <<stack, heap, refCounts, visited, frames, helperCode, cachedFor, valVars>>

\* Slot 1 of the callee frame is written bytewise: byte 0 the requested return
\* count, byte 1 the flags; both lie in limb 0 (little endian).
\* The frame entry that stores the return count and leaves the flags byte
\* as it was: a faulty variant.
EnterFrameKeepsFlags(startLocal, numRet, callee) ==
    \E new \in {stack + startLocal} :
       /\ slots' = [slots EXCEPT ![new + 2] = <<(@[1] \div 256) * 256 + numRet, @[2], @[3], @[4]>>,
                                 ![new + 3] = PtrWord(pc + 11),
                                 ![new + 4] = PtrWord(stack)]
       /\ stack' = new
       /\ pc' = callee
       /\ frames' = Append(frames, [retPc |-> pc + 11, retFp |-> stack, fp |-> new,
                                     numRet |-> numRet])

\* stack += startLocal; slot 1 byte 0 = pc[3], byte 1 = 0; slot 2 = pc + 11;
\* slot 3 = the caller's frame pointer; pc = callee.
EnterFrame(startLocal, numRet, callee) ==
    \E new \in {stack + startLocal} :
       /\ slots' = [slots EXCEPT ![new + 2] = <<numRet, @[2], @[3], @[4]>>,
                                 ![new + 3] = PtrWord(pc + 11),
                                 ![new + 4] = PtrWord(stack)]
       /\ stack' = new
       /\ pc' = callee
       /\ frames' = Append(frames, [retPc |-> pc + 11, retFp |-> stack, fp |-> new,
                                     numRet |-> numRet])

CallFuncIC ==
    /\ Running /\ Op = CodeCallFuncIC
    /\ LET startLocal == Arg(1)
           numLocals  == Arg(4)
       IN  IF stack + startLocal + numLocals >= stackEndPtr THEN
              /\ Fatal
              /\ UNCHANGED <<pc, stack, slots, frames>>
           ELSE
              /\ EnterFrame(startLocal, Arg(3), READ_U48(code, pc, 5))
              /\ UNCHANGED <<status, resCode>>
    /\ Ran("CallFuncIC")
    /\ UNCHANGED <<code, heap, refCounts, curStack, hostCalls, visited, helperCode, cachedFor, valVars>>

\* A function call has no receiver.
NoRecv == <<>>

\* What a failed zCallSym hands back: the handler reads only res.pc and
\* res.stack, so the loop goes on at the call site or behind it.
CallSymFailed(c) ==
    /\ helperCode' = c
    /\ pc' \in {pc, pc + 11}
    /\ UNCHANGED <<code, stack, slots, status, resCode, curStack, hostCalls, frames>>

\* zCallSym (spec 4.4, 4.6): resolve the function symbol; an unknown symbol
\* and a frame that does not fit the stack are panics; a bytecode function is
\* entered as by CallFuncIC and a host function called as by
\* CallNativeFuncIC, and the site is rewritten to the IC form.
CallSym ==
    /\ Running /\ Op = CodeCallSym
    /\ \E startLocal \in {Arg(1)}, numArgs \in {Arg(2)}, numRet \in {Arg(3)}, sym \in {FuncOf(Arg(4))} :
          IF sym.kind = "none" THEN CallSymFailed(RES_CODE_PANIC)
          ELSE IF sym.kind = "func" THEN
             IF stack + startLocal + sym.numLocals >= stackEndPtr THEN CallSymFailed(RES_CODE_PANIC)
             ELSE
                /\ helperCode' = RES_CODE_SUCCESS
                /\ code' = SetBytes(SetByte(code, pc, CodeCallFuncIC), pc + 4,
                                    <<sym.numLocals>> \o U48Bytes(sym.pc))
                /\ EnterFrame(startLocal, numRet, sym.pc)
                /\ UNCHANGED <<status, resCode, curStack, hostCalls>>
          ELSE
             /\ helperCode' = RES_CODE_SUCCESS
             /\ code' = SetBytes(SetByte(code, pc, CodeCallNativeFuncIC), pc + 5, U48Bytes(sym.fn))
             /\ curStack' = stack + startLocal
             /\ hostCalls' = Append(hostCalls, HostCall(sym.fn, NoRecv, stack + startLocal + 4, numArgs))
             /\ NativeReturn(startLocal, numRet, 11)
             /\ UNCHANGED <<stack, frames>>
    /\ Ran("CallSym")
    /\ UNCHANGED <<heap, refCounts, visited, cachedFor, valVars>>

\* The host function may panic; the check of its result is commented out
\* (vm.c:471-473), so the returned Value is handled as any other.
CallNativeFuncIC ==
    /\ Running /\ Op = CodeCallNativeFuncIC
    /\ \E startLocal \in {Arg(1)}, numArgs \in {Arg(2)}, fn \in {READ_U48(code, pc, 5)} :
          /\ curStack' = stack + startLocal
          /\ hostCalls' = Append(hostCalls, HostCall(fn, NoRecv, stack + startLocal + 4, numArgs))
          /\ helperCode' \in {RES_CODE_SUCCESS, RES_CODE_PANIC}
          /\ NativeReturn(startLocal, Arg(3), 11)
    /\ Ran("CallNativeFuncIC")
    /\ UNCHANGED <<code, stack, heap, refCounts, visited, frames, cachedFor, valVars>>

\* The return that restores pc and keeps the callee's frame pointer: a
\* faulty variant.
PopFrameKeepsStack(retFlag) ==
    /\ pc' = WordPtr(Reg(2))
    /\ stack' = stack
    /\ frames' = IF frames = <<>> THEN frames ELSE SubSeq(frames, 1, Len(frames) - 1)
    /\ resCode' = IF retFlag THEN RES_CODE_SUCCESS ELSE resCode

\* pc = (Inst*)stack[2]; stack = (Value*)stack[3]; return RES_CODE_SUCCESS
\* when the flag is set.
PopFrame(retFlag) ==
    /\ pc' = WordPtr(Reg(2))
    /\ stack' = WordPtr(Reg(3))
    /\ frames' = IF frames = <<>> THEN frames ELSE SubSeq(frames, 1, Len(frames) - 1)
    /\ resCode' = IF retFlag THEN RES_CODE_SUCCESS ELSE resCode

Ret1 ==
    /\ Running /\ Op = CodeRet1
    /\ LET reqNumArgs == Reg(1)[1] % 256
           retFlag    == (Reg(1)[1] \div 256) % 2 = 1
       IN  IF reqNumArgs = 1 THEN
              /\ PopFrame(retFlag)
              /\ status' = IF retFlag THEN "returned" ELSE status
              /\ UNCHANGED <<heap, refCounts>>
           ELSE IF reqNumArgs = 0 THEN
              /\ PopFrame(retFlag)
              /\ \E g \in FreedRcReads :
                 \E M1 \in {release(Mem, Reg(0), g)} :
                    /\ heap' = M1.heap
                    /\ refCounts' = M1.refCounts
                    /\ status' = IF M1.wild THEN "crash"
                                 ELSE IF retFlag THEN "returned" ELSE status
           ELSE
              /\ Fatal
              /\ UNCHANGED <<pc, stack, heap, refCounts, frames>>
    /\ Ran("Ret1")
    /\ UNCHANGED <<code, slots, curStack, hostCalls, visited, helperCode, cachedFor, valVars>>


\* The loop index i is a uint8_t compared with the int 2 + numLocals: for
\* numLocals >= 254 it wraps before the bound and the loop never exits.
\* Slots beyond the end of the stack are outside the model's memory.
\* The largest value of the uint8_t loop index.
U8Max == 255

\* for (i = 2; i < 2 + numLocals; i += 1): the bound is an int, the index wraps
\* from U8Max to 0, so the loop is left only when the bound is within U8Max.
InitLoopExits(numLocals) == 2 + numLocals <= U8Max

\* The slots stack[i] the loop writes: 2 .. 1 + numLocals when it is left, every
\* value of the index when it is not.
InitIndexes(numLocals) ==
    IF InitLoopExits(numLocals) THEN 2 .. 1 + numLocals ELSE 0 .. U8Max

SetInitN ==
    /\ Running /\ Op = CodeSetInitN
    /\ LET numLocals == Arg(1)
       IN  /\ slots' = [k \in 1 .. Len(slots) |->
                          IF k - 1 - stack \in InitIndexes(numLocals) THEN VALUE_NONE ELSE slots[k]]
           /\ IF InitLoopExits(numLocals) THEN status' = status /\ pc' = pc + 2 + numLocals
              ELSE status' = "hang" /\ pc' = pc
    /\ Ran("SetInitN")
    /\ UNCHANGED <<code, stack, heap, refCounts, resCode, curStack, hostCalls, visited, frames, helperCode, cachedFor, valVars>>

\* The bound on the length of the history of loop entries.
MaxVisit == 2 * MaxNum + 2
Visit(n) == IF Len(visited) < MaxVisit THEN Append(visited, n) ELSE visited

\* The skip without the 7 bytes of the paired ForRange: a faulty variant.
SkipLoopOntoForRange == pc + READ_U16(code, pc, 6)

\* The pc after an empty range: past the paired trailing instruction.
SkipLoop == pc + READ_U16(code, pc, 6) + 7

\* The trailing opcode always set to ForRange: a faulty variant.
TrailingOpAlwaysForward(start, end) == CodeForRange

\* The opcode written over the paired trailing instruction for start # end.
TrailingOp(start, end) == IF start < end THEN CodeForRange ELSE CodeForRangeReverse

ForRangeInit ==
    /\ Running /\ Op = CodeForRangeInit
    /\ \E start \in {toF64(Reg(Arg(1)))}, end \in {toF64(Reg(Arg(2)))} :
       \* stack[pc[3]] is read after stack[pc[2]] was overwritten with end
       \E step0 \in {IF Arg(3) = Arg(2) THEN end ELSE toF64(Reg(Arg(3)))} :
       \E step \in {IF step0 < 0 THEN -step0 ELSE step0} :
       \E vStart \in {VALUE_NUMBER(start)}, vEnd \in {VALUE_NUMBER(end)}, vStep \in {VALUE_NUMBER(step)} :
       \E s2 \in {SetReg(SetReg(slots, Arg(2), vEnd), Arg(3), vStep)} :
           IF start = end THEN
              /\ slots' = s2
              /\ pc' = SkipLoop
              /\ UNCHANGED <<code, visited>>
           ELSE
              /\ slots' = SetReg(SetReg(s2, Arg(4), vStart), Arg(5), vStart)
              /\ code' = SetByte(code, pc + READ_U16(code, pc, 6), TrailingOp(start, end))
              /\ pc' = pc + 8
              /\ visited' = Visit(start)
    /\ Ran("ForRangeInit")
    /\ UNCHANGED <<stack, heap, refCounts, status, resCode, curStack, hostCalls, frames, helperCode, cachedFor, valVars>>

\* ForRange that omits counter += step: a faulty variant.
ForRangeNoAdvance ==
    /\ Running /\ Op = CodeForRange
    /\ \E counter \in {VALUE_AS_NUMBER(Reg(Arg(1)))}, end \in {VALUE_AS_NUMBER(Reg(Arg(3)))} :
       \E vCounter \in {VALUE_NUMBER(counter)} :
           IF counter < end THEN
              /\ slots' = SetReg(SetReg(slots, Arg(1), vCounter), Arg(4), vCounter)
              /\ pc' = pc - READ_U16(code, pc, 5)
              /\ visited' = Visit(counter)
           ELSE
              /\ pc' = pc + 7
              /\ UNCHANGED <<slots, visited>>
    /\ Ran("ForRange")
    /\ UNCHANGED <<code, stack, heap, refCounts, status, resCode, curStack, hostCalls, frames, helperCode, cachedFor, valVars>>

ForRange ==
    /\ Running /\ Op = CodeForRange
    /\ \E counter \in {VALUE_AS_NUMBER(Reg(Arg(1))) + VALUE_AS_NUMBER(Reg(Arg(2)))},
          end \in {VALUE_AS_NUMBER(Reg(Arg(3)))} :
       \E vCounter \in {VALUE_NUMBER(counter)} :
           IF counter < end THEN
              /\ slots' = SetReg(SetReg(slots, Arg(1), vCounter), Arg(4), vCounter)
              /\ pc' = pc - READ_U16(code, pc, 5)
              /\ visited' = Visit(counter)
           ELSE
              /\ pc' = pc + 7
              /\ UNCHANGED <<slots, visited>>
    /\ Ran("ForRange")
    /\ UNCHANGED <<code, stack, heap, refCounts, status, resCode, curStack, hostCalls, frames, helperCode, cachedFor, valVars>>

\* stack[pc[3]] = VALUE_INTEGER(l op r), or the trap of an overflowing l op r.
IntOp(overflows, result) ==
    \/ /\ slots' = SetReg(slots, Arg(3), VALUE_INTEGER(result))
       /\ pc' = pc + 4
       /\ UNCHANGED status
    \/ /\ overflows
       /\ status' = "crash"
       /\ UNCHANGED <<slots, pc>>

AddInt ==
    /\ Running /\ Op = CodeAddInt
    /\ \E l \in {VALUE_AS_INTEGER(Reg(Arg(1)))}, r \in {VALUE_AS_INTEGER(Reg(Arg(2)))} :
          IntOp(AddOverflows(l, r), WrapAdd(l, r))
    /\ Ran("AddInt")
    /\ UNCHANGED <<code, stack, heap, refCounts, resCode, curStack, hostCalls, visited, frames, helperCode, cachedFor, valVars>>

SubInt ==
    /\ Running /\ Op = CodeSubInt
    /\ \E l \in {VALUE_AS_INTEGER(Reg(Arg(1)))}, r \in {VALUE_AS_INTEGER(Reg(Arg(2)))} :
          IntOp(SubOverflows(l, r), WrapSub(l, r))
    /\ Ran("SubInt")
    /\ UNCHANGED <<code, stack, heap, refCounts, resCode, curStack, hostCalls, visited, frames, helperCode, cachedFor, valVars>>

LessInt ==
    /\ Running /\ Op = CodeLessInt
    /\ slots' = SetReg(slots, Arg(3),
                       VALUE_BOOLEAN(VALUE_AS_INTEGER(Reg(Arg(1))) < VALUE_AS_INTEGER(Reg(Arg(2)))))
    /\ pc' = pc + 4
    /\ Ran("LessInt")
    /\ UNCHANGED <<code, stack, heap, refCounts, status, resCode, curStack, hostCalls, visited, frames, helperCode, cachedFor, valVars>>

\* zEnd records the final pc; execBytecode returns success.
End ==
    /\ Running /\ Op = CodeEnd
    /\ Return(RES_CODE_SUCCESS)
    /\ Ran("End")
    /\ UNCHANGED <<code, pc, stack, slots, heap, refCounts, curStack, hostCalls, visited, frames, helperCode, cachedFor, valVars>>

\* printf("Unsupported ..."); zFatal();
Unsupported ==
    /\ Running /\ Op \in UnsupportedOps
    /\ Fatal
    /\ Ran("Unsupported")
    /\ UNCHANGED <<code, pc, stack, slots, heap, refCounts, curStack, hostCalls, visited, frames, helperCode, cachedFor, valVars>>

\* NEXT() with pc outside the chunk, or a frame pointer outside the stack:
\* the fetch faults.
WildDispatch ==
    /\ status = "running" /\ ~Running
    /\ status' = "crash"
    /\ Ran("Wild")
    /\ UNCHANGED <<code, pc, stack, slots, heap, refCounts, resCode, curStack, hostCalls, visited, frames, helperCode, cachedFor, valVars>>


(***************************************************************************)
(* Bytecode chunks and initial stacks the dispatch loop is entered with.   *)
(* The entry frame is at slot 0; registers 4.. are its arguments and       *)
(* locals.  The heap starts with one list object at the first address.     *)
(***************************************************************************)
Obj1 == 8
NoObj == [state |-> "unalloc", typeId |-> 0, rc |-> 0, elems |-> <<>>, frees |-> 0]
ListObj(rc) == [state |-> "live", typeId |-> TYPE_LIST, rc |-> rc, elems |-> <<>>, frees |-> 0]
HeapWith(rc) == [a \in Addrs |-> IF a = Obj1 THEN ListObj(rc) ELSE NoObj]

\* The final-return flag of the entry frame is set (slot 1, byte 1).
EntryInfo == <<1 + 256, 0, 0, 0>>
StackWith(f) ==
    [k \in 1 .. StackSize |-> IF k - 1 \in DOMAIN f THEN f[k - 1]
                              ELSE IF k - 1 = 1 THEN EntryInfo ELSE VALUE_NONE]

Chunk(c, f, rc) == [code |-> c, slots |-> StackWith(f), heap |-> HeapWith(rc), refCounts |-> rc]

IJumpNotCond(off, src) == <<CodeJumpNotCond>> \o U16Bytes(off) \o <<src>>
IConstI8Int(imm, dst) == <<CodeConstI8Int, imm, dst>>
ICopy(src, dst) == <<CodeCopy, src, dst>>
ICopyReleaseDst(src, dst) == <<CodeCopyReleaseDst, src, dst>>
ICopyRetainSrc(src, dst) == <<CodeCopyRetainSrc, src, dst>>
IRelease(r) == <<CodeRelease, r>>
IList(start, n, dst) == <<CodeList, start, n, dst>>
ICallObj(op, startLocal, numArgs, numRet, symId, fn, typeId) ==
    <<op, startLocal, numArgs, numRet, symId, 0>> \o U48Bytes(fn) \o U16Bytes(typeId)
ICallFuncIC(startLocal, numArgs, numRet, numLocals, callee) ==
    <<CodeCallFuncIC, startLocal, numArgs, numRet, numLocals>> \o U48Bytes(callee)
ISetInitN(regs) == <<CodeSetInitN, Len(regs)>> \o regs
IForRangeInit(start, end, step, counter, userVar, off) ==
    <<CodeForRangeInit, start, end, step, counter, userVar>> \o U16Bytes(off)
IForRange(op, counter, step, end, userVar, back) ==
    <<op, counter, step, end, userVar>> \o U16Bytes(back)

\* Values of every kind, for the operand of a conditional jump.
OddBool == <<2, 0, TAG_BOOLEAN, 32764>>
ErrorVal == <<1, 0, TAG_ERROR, 32764>>
CondValues ==
    {VALUE_NONE, VALUE_TRUE, VALUE_FALSE, VALUE_NUMBER(0), VALUE_NUMBER(1), VALUE_NUMBER(-2),
     VALUE_INTEGER(0), VALUE_INTEGER(3), PointerTo(Obj1), OddBool, ErrorVal}

JumpChunks ==
    {Chunk(IJumpNotCond(off, 4) \o <<CodeEnd, CodeEnd, CodeEnd>>, 4 :> v, 1) :
        off \in {5, 6}, v \in CondValues}

Imms == {0, 1, 127, 128, 129, 255}
ConstChunks == {Chunk(IConstI8Int(imm, 4) \o <<CodeEnd>>, <<>>, 0) : imm \in Imms}

\* Straight-line sequences of the reference-counting opcodes over two registers.
RcRegs == {4, 5}
RcInstrs ==
    {ICopy(s, d) : s \in RcRegs, d \in RcRegs}
    \cup {ICopyReleaseDst(s, d) : s \in RcRegs, d \in RcRegs}
    \cup {ICopyRetainSrc(s, d) : s \in RcRegs, d \in RcRegs}
    \cup {IRelease(r) : r \in RcRegs}
    \cup {IList(4, n, d) : n \in {0, 1}, d \in RcRegs}

RECURSIVE RcSeqs(_)
RcSeqs(n) == IF n = 0 THEN {<<>>} ELSE {i \o p : i \in RcInstrs, p \in RcSeqs(n - 1)}

RcChunks ==
    {Chunk(p \o <<CodeEnd>>, 4 :> PointerTo(Obj1), 1) : p \in UNION {RcSeqs(n) : n \in 1 .. MaxSeq}}
    \cup {Chunk(p \o <<CodeEnd>>, (4 :> PointerTo(Obj1)) @@ (5 :> PointerTo(Obj1)), 2) :
             p \in UNION {RcSeqs(n) : n \in 1 .. MaxSeq}}

\* SetInitN with a count up to U8Max on a stack of U8Max + 1 slots, every
\* register slot holding true beforehand.
InitCounts == {0, 3, U8Max - 2, U8Max - 1, U8Max}
InitNChunks ==
    {[code |-> ISetInitN([i \in 1 .. n |-> 4 + (i % 8)]) \o <<CodeEnd>>,
      slots |-> [k \in 1 .. U8Max + 1 |-> IF k - 1 = 1 THEN EntryInfo ELSE VALUE_TRUE],
      heap |-> HeapWith(0), refCounts |-> 0] : n \in InitCounts}

\* A caller, its callee at CalleePc and a nested callee at Callee2Pc.
CalleePc == 12
Callee2Pc == 32
CallStart == 5
CalleeBodies ==
    {<<CodeRet1>>,
     ISetInitN(<<>>) \o <<CodeRet1>>,
     ISetInitN(<<4>>) \o <<CodeRet1>>,
     ISetInitN(<<4, 5>>) \o <<CodeRet1>>,
     ICallFuncIC(4, 0, 1, 4, Callee2Pc) \o <<CodeRet1>>,
     ICopy(0, 4) \o <<CodeRet1>>}
Pad(c, n) == c \o [i \in 1 .. n - Len(c) |-> CodeEnd]
\* What an earlier frame left in the slot that becomes the callee's slot 1.
StaleInfo == <<255 + 256, 7, 7, 7>>
CallChunks ==
    {Chunk(Pad(Pad(ICallFuncIC(CallStart, 0, numRet, numLocals, CalleePc) \o <<CodeEnd>>, CalleePc) \o body,
               Callee2Pc) \o <<CodeRet1>>,
           (CallStart :> r0) @@ (CallStart + 1 :> StaleInfo), IF VALUE_IS_POINTER(r0) THEN 1 ELSE 0) :
        numRet \in {0, 1, 2},
        numLocals \in {StackSize - CallStart - 1, StackSize - CallStart, StackSize - CallStart + 1},
        body \in CalleeBodies,
        r0 \in {VALUE_NONE, PointerTo(Obj1)}}

\* A method call site, generic or with a populated inline cache, and a receiver.
Receivers == {PointerTo(Obj1), VALUE_INTEGER(3), VALUE_NONE, VALUE_NUMBER(1)}
CacheStates ==
    {[op |-> CodeCallObjSym, fn |-> 0, typeId |-> 0],
     [op |-> CodeCallObjNativeFuncIC, fn |-> ListSizeFn, typeId |-> TYPE_LIST],
     [op |-> CodeCallObjNativeFuncIC, fn |-> IntAbsFn, typeId |-> TAG_INTEGER]}
ICChunks ==
    {Chunk(ICallObj(ic.op, 4, numArgs, numRet, symId, ic.fn, ic.typeId) \o <<CodeEnd>>,
           (4 + numArgs + 3) :> recv, IF VALUE_IS_POINTER(recv) THEN 1 ELSE 0) :
        ic \in CacheStates, numArgs \in {0, 1}, numRet \in {0, 1, 2}, symId \in {0, 1},
        recv \in Receivers}

\* for userVar in start..end, step: ForRangeInit, a one-instruction body, ForRange.
ForBodyPc == 8
ForRangePc == 11
ForEndPc == 18
Nums == (0 - MaxNum) .. MaxNum
NumValue(kind, n) == IF kind = "integer" THEN VALUE_INTEGER(n) ELSE VALUE_NUMBER(n)
ForChunks ==
    {Chunk(IForRangeInit(4, 5, 6, 7, 8, ForRangePc) \o ICopy(8, 9)
             \o IForRange(trailing, 7, 6, 5, 8, ForRangePc - ForBodyPc) \o <<CodeEnd>>,
           (4 :> NumValue(kind, start)) @@ (5 :> NumValue(kind, end)) @@ (6 :> NumValue(kind, step)), 0) :
        start \in Nums, end \in Nums, step \in Nums,
        trailing \in {CodeForRange, CodeForRangeReverse}, kind \in {"number", "integer"}}

\* An integer-tagged Value with payload n: INTEGER_MASK | (uint32_t)n.
IntValue(n) == [I32ToU64(n) EXCEPT ![3] = TAG_INTEGER, ![4] = 32764]
IntOperands == ((0 - MaxInt) .. MaxInt) \cup {MaxInt32, MinInt32}
IIntOp(op, a, b, dst) == <<op, a, b, dst>>
IntChunks ==
    {Chunk(IIntOp(op, 4, 5, 6) \o <<CodeEnd>>, (4 :> IntValue(l)) @@ (5 :> IntValue(r)), 0) :
        op \in {CodeAddInt, CodeSubInt, CodeLessInt}, l \in IntOperands, r \in IntOperands}

\* Add and Sub over doubles, integers and operands that are not numeric.
ArithOperands == {VALUE_NUMBER(1), VALUE_NUMBER(0 - 2), IntValue(3), VALUE_NONE, VALUE_TRUE}
ArithChunks ==
    {Chunk(IIntOp(op, 4, 5, 6) \o <<CodeEnd>>, (4 :> l) @@ (5 :> r), 0) :
        op \in {CodeAdd, CodeSub}, l \in ArithOperands, r \in ArithOperands}

\* A call through the function-symbol table, and a site already rewritten to
\* the native IC form.
ICallSym(startLocal, numArgs, numRet, symId) ==
    <<CodeCallSym, startLocal, numArgs, numRet, symId, 0, 0, 0, 0, 0, 0>>
ICallNativeFuncIC(startLocal, numArgs, numRet, fn) ==
    <<CodeCallNativeFuncIC, startLocal, numArgs, numRet, 0>> \o U48Bytes(fn)
SymChunks ==
    {Chunk(Pad(ICallSym(CallStart, numArgs, numRet, symId) \o <<CodeEnd>>, CalleePc) \o <<CodeRet1>>,
           CallStart :> VALUE_NUMBER(1), 0) :
        numArgs \in {0, 1}, numRet \in {0, 1, 2}, symId \in 0 .. 3}
    \cup {Chunk(ICallNativeFuncIC(CallStart, numArgs, numRet, HostFn) \o <<CodeEnd>>,
                CallStart :> VALUE_NUMBER(1), 0) :
             numArgs \in {0, 1}, numRet \in {0, 1, 2}}

\* Each opcode the specification requires, dispatched first, and Ret0 as the
\* body of a callee.
RequiredOps ==
    {21, 24, CodeRet0, 33, 34, 64, 65, CodeForRangeReverse}
    \cup (35 .. 39) \cup (42 .. 51) \cup {53} \cup (57 .. 63) \cup (66 .. 70) \cup (74 .. 79)
RequiredChunks ==
    {Chunk(<<op, 4, 5, 6, CodeEnd>>, <<>>, 0) : op \in RequiredOps}
    \cup {Chunk(Pad(ICallFuncIC(CallStart, 0, 0, 4, CalleePc) \o <<CodeEnd>>, CalleePc) \o <<CodeRet0>>,
                <<>>, 0)}

\* Constants and literals in a row, and a none-check around a backward jump.
IJump(off) == <<CodeJump>> \o U16Bytes(off % Limb)
IJumpNotNone(off, src) == <<CodeJumpNotNone>> \o U16Bytes(off % Limb) \o <<src>>
LiteralChunks ==
    {Chunk(<<CodeConstOp, k, 4, CodeConstI8, imm, 5, CodeTrue, 6, CodeFalse, 7, CodeNone, 4, CodeEnd>>,
           <<>>, 0) : k \in {0, 1}, imm \in {1, 255}}
    \cup {Chunk(IJumpNotNone(5, 4) \o <<CodeEnd>> \o IJump(0 - 1) \o <<CodeEnd>>, 4 :> v, 0) :
             v \in {VALUE_NONE, VALUE_TRUE, VALUE_NUMBER(1)}}

\* A method call site run twice, on a first and then on a second receiver:
\* CallObjSym; Copy 8 7; Copy 9 8; JumpNotNone back to the site; End.  The
\* heap holds the list object and an object of the wide type.
Obj2 == 16
WideObj == [state |-> "live", typeId |-> WideType, rc |-> 1, elems |-> <<>>, frees |-> 0]
TwoPassReceivers == {PointerTo(Obj1), PointerTo(Obj2), VALUE_INTEGER(3)}
TwoPassChunks ==
    {[code |-> ICallObj(CodeCallObjSym, 4, 0, 1, 0, 0, 0) \o ICopy(8, 7) \o ICopy(9, 8)
                 \o IJumpNotNone(0 - 20, 7) \o <<CodeEnd>>,
      slots |-> StackWith((7 :> a) @@ (8 :> b)),
      heap |-> [HeapWith(1) EXCEPT ![Obj2] = WideObj],
      refCounts |-> 2] : a \in TwoPassReceivers, b \in TwoPassReceivers}

Chunks == InitNChunks \cup TwoPassChunks \cup LiteralChunks \cup RequiredChunks \cup SymChunks \cup ArithChunks \cup IntChunks \cup JumpChunks \cup ConstChunks \cup RcChunks \cup CallChunks \cup ICChunks \cup ForChunks

ProbeIdle == <<0, 0, 0, 0>>
EncIdle == [kind |-> "idle"]
NoEnc == [done |-> FALSE]
RcIdle == [on |-> FALSE]
NoOut == [isNumber |-> FALSE, isPointer |-> FALSE, isBoolean |-> FALSE, isNone |-> FALSE,
          typeId |-> NoCode]

\* execBytecode is entered with pc = vm->curPc and stack = vm->curStack.
InitChunk(ch) ==
    /\ code = ch.code
    /\ pc = 0
    /\ stack = 0
    /\ slots = ch.slots
    /\ heap = ch.heap
    /\ refCounts = ch.refCounts
    /\ status = "running"
    /\ resCode = NoCode
    /\ curStack = 0
    /\ hostCalls = <<>>
    /\ visited = <<>>
    /\ lastOp = "none"
    /\ lastPc = 0
    /\ frames = <<>>
    /\ helperCode = NoCode
    /\ cachedFor = IF ch.code[1] = CodeCallObjNativeFuncIC
                   THEN 0 :> READ_U16(ch.code, 0, 12) ELSE <<>>

Init ==
    /\ \E ch \in Chunks : InitChunk(ch)
    /\ probe = ProbeIdle
    /\ probeOut = NoOut
    /\ encIn = EncIdle
    /\ encOut = NoEnc
    /\ rcLog = RcIdle

Next ==
    \/ ConstOp
    \/ ConstI8
    \/ ConstI8Int
    \/ True
    \/ False
    \/ None
    \/ Jump
    \/ JumpNotNone
    \/ Copy
    \/ CopyReleaseDst
    \/ CopyRetainSrc
    \/ List
    \/ JumpNotCond
    \/ Release
    \/ CallObjSym
    \/ CallObjNativeFuncIC
    \/ CallSym
    \/ CallFuncIC
    \/ CallNativeFuncIC
    \/ Ret1
    \/ SetInitN
    \/ Add
    \/ Sub
    \/ AddInt
    \/ SubInt
    \/ LessInt
    \/ ForRangeInit
    \/ ForRange
    \/ End
    \/ Unsupported
    \/ WildDispatch

Spec == Init /\ [][Next]_vars

\* The dispatch loop on the for-range programs.  Only these handlers are ever
\* dispatched from InitFor (the trailing opcode of a descending range is the
\* unsupported ForRangeReverse), so the behaviours are those of Next.
InitFor ==
    /\ \E ch \in ForChunks : InitChunk(ch)
    /\ probe = ProbeIdle
    /\ probeOut = NoOut
    /\ encIn = EncIdle
    /\ encOut = NoEnc
    /\ rcLog = RcIdle

NextFor ==
    \/ ForRangeInit
    \/ Copy
    \/ ForRange
    \/ End
    \/ Unsupported

\* The loop runs on: NEXT() always dispatches the next instruction.
FairSpec == InitFor /\ [][NextFor]_vars /\ WF_vars(NextFor)

TypeOK ==
    /\ status \in {"running", "returned", "fatal", "crash", "hang"}
    /\ resCode \in {NoCode, RES_CODE_SUCCESS} \cup FailCodes
    /\ helperCode \in {NoCode, RES_CODE_SUCCESS} \cup FailCodes
    /\ Len(slots) \in {StackSize, U8Max + 1}


(***************************************************************************)
(* The value layer on its own: a word is drawn and classified.             *)
(***************************************************************************)
ProbeWords ==
    {<<l0, l1, l2, l3>> :
        l0 \in {0, 1, 2, 8, 65535},
        l1 \in {0, 1, 65535},
        l2 \in (0 .. MaxTagProbe) \cup {65529, 65535},
        l3 \in {0, 16368, 49136, 32752, 32760, 32764, 32765, 32767, 32768, 65528, 65532, 65535}}

Classify ==
    /\ probeOut = NoOut
    /\ \E t \in TypeIdReads(heap, probe) :
          probeOut' = [isNumber  |-> VALUE_IS_NUMBER(probe),
                       isPointer |-> VALUE_IS_POINTER(probe),
                       isBoolean |-> VALUE_IS_BOOLEAN(probe),
                       isNone    |-> VALUE_IS_NONE(probe),
                       typeId    |-> t]
    /\ UNCHANGED <<vmVars, probe, encIn, encOut, rcLog>>

InitValue ==
    /\ InitChunk(Chunk(<<CodeEnd>>, <<>>, 1))
    /\ probe \in ProbeWords
    /\ probeOut = NoOut
    /\ encIn = EncIdle
    /\ encOut = NoEnc
    /\ rcLog = RcIdle

NextValue == Classify

SpecValue == InitValue /\ [][NextValue]_vars

(***************************************************************************)
(* The constructors and projectors on their own: an integer or a boolean   *)
(* is encoded and the word projected back.                                 *)
(***************************************************************************)
EncInts ==
    ((0 - MaxEnc) .. MaxEnc)
    \cup {32767, 32768, 65535, 65536, 0 - 32768, 0 - 32769, 0 - 65536, 0 - 65537,
          MaxInt32 - 1, MaxInt32, MinInt32 + 1, MinInt32}
EncInputs ==
    {[kind |-> "integer", n |-> n] : n \in EncInts}
    \cup {[kind |-> "boolean", b |-> b] : b \in BOOLEAN}
    \cup {[kind |-> "none"]}

Encode ==
    /\ ~encOut.done
    /\ encOut' =
          IF encIn.kind = "integer" THEN
             [done |-> TRUE, word |-> VALUE_INTEGER(encIn.n),
              back |-> VALUE_AS_INTEGER(VALUE_INTEGER(encIn.n))]
          ELSE IF encIn.kind = "boolean" THEN
             [done |-> TRUE, word |-> VALUE_BOOLEAN(encIn.b),
              back |-> VALUE_AS_BOOLEAN(VALUE_BOOLEAN(encIn.b))]
          ELSE
             [done |-> TRUE, word |-> VALUE_NONE, back |-> VALUE_IS_NONE(VALUE_NONE)]
    /\ UNCHANGED <<vmVars, probe, probeOut, encIn, rcLog>>

InitEncode ==
    /\ InitChunk(Chunk(<<CodeEnd>>, <<>>, 1))
    /\ probe = ProbeIdle
    /\ probeOut = NoOut
    /\ encIn \in EncInputs
    /\ encOut = NoEnc
    /\ rcLog = RcIdle

NextEncode == Encode

SpecEncode == InitEncode /\ [][NextEncode]_vars

(***************************************************************************)
(* retain and release on their own: a sequence of calls on the list object *)
(* of rc 1 and on Values that are no pointers, in which the releases of    *)
(* the object never outnumber its retains plus one.                        *)
(***************************************************************************)
MaxCalls == 5
RcValues == {PointerTo(Obj1), VALUE_NONE, VALUE_TRUE, VALUE_INTEGER(3), VALUE_NUMBER(1)}

RcLogged(op, v, g, M1) ==
    LET onObj == VALUE_IS_POINTER(v)
    IN  [on        |-> TRUE,
         retains   |-> rcLog.retains + (IF onObj /\ op = "retain" THEN 1 ELSE 0),
         releases  |-> rcLog.releases + (IF onObj /\ op = "release" THEN 1 ELSE 0),
         afterFree |-> rcLog.afterFree \/ (onObj /\ heap[Obj1].state # "live"),
         freedBy   |-> IF M1.heap[Obj1].frees > heap[Obj1].frees
                       THEN Append(rcLog.freedBy, [op |-> op, rc |-> HeaderRc(heap[Obj1], g)])
                       ELSE rcLog.freedBy,
         op        |-> op,
         val       |-> v,
         before    |-> [heap |-> heap, refCounts |-> refCounts]]

RcCall(op, v, g, M1) ==
    /\ VALUE_IS_POINTER(v) => rcLog.retains + rcLog.releases < MaxCalls
    /\ heap' = M1.heap
    /\ refCounts' = M1.refCounts
    /\ rcLog' = RcLogged(op, v, g, M1)
    /\ UNCHANGED <<code, pc, stack, slots, status, resCode, curStack, hostCalls, visited,
                   lastOp, lastPc, frames, helperCode, cachedFor, probe, probeOut, encIn, encOut>>

DoRetain ==
    /\ rcLog.on
    /\ \E v \in RcValues, g \in FreedRcReads : RcCall("retain", v, g, retain(Mem, v, g))

DoRelease ==
    /\ rcLog.on
    /\ \E v \in RcValues, g \in FreedRcReads :
          /\ VALUE_IS_POINTER(v) => rcLog.releases + 1 <= rcLog.retains + 1
          /\ RcCall("release", v, g, release(Mem, v, g))

InitRc ==
    /\ InitChunk(Chunk(<<CodeEnd>>, <<>>, 1))
    /\ probe = ProbeIdle
    /\ probeOut = NoOut
    /\ encIn = EncIdle
    /\ encOut = NoEnc
    /\ rcLog = [on |-> TRUE, retains |-> 0, releases |-> 0, afterFree |-> FALSE, freedBy |-> <<>>,
                op |-> "none", val |-> VALUE_NONE,
                before |-> [heap |-> HeapWith(1), refCounts |-> 1]]

NextRc == DoRetain \/ DoRelease

SpecRc == InitRc /\ [][NextRc]_vars

(***************************************************************************)
(* The global counter: sequences of retain and release calls as above, and  *)
(* straight-line sequences of Copy, CopyRetainSrc, CopyReleaseDst and       *)
(* Release over two registers.                                              *)
(***************************************************************************)
CountedInstrs == {i \in RcInstrs : Head(i) # CodeList}

RECURSIVE CountedSeqs(_)
CountedSeqs(n) == IF n = 0 THEN {<<>>} ELSE {i \o p : i \in CountedInstrs, p \in CountedSeqs(n - 1)}

CountedChunks ==
    {Chunk(p \o <<CodeEnd>>, 4 :> PointerTo(Obj1), 1) : p \in UNION {CountedSeqs(n) : n \in 1 .. MaxSeq}}
    \cup {Chunk(p \o <<CodeEnd>>, (4 :> PointerTo(Obj1)) @@ (5 :> PointerTo(Obj1)), 2) :
             p \in UNION {CountedSeqs(n) : n \in 1 .. MaxSeq}}

InitCounted ==
    \/ InitRc
    \/ /\ \E ch \in CountedChunks : InitChunk(ch)
       /\ probe = ProbeIdle
       /\ probeOut = NoOut
       /\ encIn = EncIdle
       /\ encOut = NoEnc
       /\ rcLog = RcIdle

NextCounted ==
    \/ DoRetain
    \/ DoRelease
    \/ Copy
    \/ CopyRetainSrc
    \/ CopyReleaseDst
    \/ Release
    \/ End

SpecCounted == InitCounted /\ [][NextCounted]_vars

(***************************************************************************)
(* Properties.                                                             *)
(***************************************************************************)
AtOp(op) == Running /\ Op = op

\* C1: JumpNotCond takes the branch (pc += off) exactly when stack[src] is
\* None or the boolean false, and otherwise advances pc by 4.
C1_JumpNotCondBranchesOnFalsy ==
    [][AtOp(CodeJumpNotCond) =>
          LET v == Reg(Arg(3))
          IN  pc' = IF v = VALUE_NONE \/ v = VALUE_FALSE
                    THEN pc + READ_U16(code, pc, 1) ELSE pc + 4]_vars

\* C2: ConstI8Int stores the integer-tagged Value whose payload is the
\* sign-extended 8-bit immediate, and advances pc by 3.
SignExtend8(b) == IF b >= 128 THEN b - 256 ELSE b
C2_ConstI8IntSignExtends ==
    [][AtOp(CodeConstI8Int) =>
          LET r == slots'[stack + Arg(2) + 1]
          IN  /\ ~VALUE_IS_NUMBER(r) /\ ~VALUE_IS_POINTER(r)
              /\ r[3] % 8 = TAG_INTEGER
              /\ VALUE_AS_INTEGER(r) = SignExtend8(Arg(1))
              /\ pc' = pc + 3]_vars

\* The objects the stack refers to.
StackRefs == {VALUE_AS_HEAPOBJECT(slots[k]) : k \in {j \in 1 .. StackSize : VALUE_IS_POINTER(slots[j])}}

\* C3 as claimed: every heap object a stack slot points to has rc >= 1 and
\* has not been given to zFreeObject.
C3_NoSlotPointsToFreedObject ==
    \A a \in StackRefs \cap Addrs : heap[a].state = "live" /\ heap[a].rc >= 1

\* C3, amended: every heap object a stack slot points to and that has not been
\* given to zFreeObject has rc >= 1 (a slot may point to a freed object).
C3_UnfreedStackObjectsHaveRc ==
    \A a \in StackRefs \cap Addrs : heap[a].state = "live" => heap[a].rc >= 1

C3_Witness ==
    /\ lastOp = "Release"
    /\ VALUE_IS_POINTER(slots[5])
    /\ heap[Obj1].state = "live" /\ heap[Obj1].rc = 1

\* C4: at the Ret1 matching a CallFuncIC made at p from frame f, slot 2 of the
\* callee frame holds p + 11, and the Ret1 resumes with pc = p + 11, stack = f.
C4_CallReturnRoundTrip ==
    [][(AtOp(CodeRet1) /\ frames # <<>> /\ frames[Len(frames)].numRet \in {0, 1}) =>
          LET top == frames[Len(frames)]
          IN  /\ Reg(2) = PtrWord(top.retPc)
              /\ pc' = top.retPc
              /\ stack' = top.retFp]_vars

\* C5: CallFuncIC pushes the frame when stack + startLocal + numLocals does not
\* exceed stackEndPtr, and otherwise returns a panic code, nothing else written.
C5_OverflowReturnsPanic ==
    [][AtOp(CodeCallFuncIC) =>
          IF stack + Arg(1) + Arg(4) <= stackEndPtr
          THEN stack' = stack + Arg(1) /\ pc' = READ_U48(code, pc, 5) /\ status' = "running"
          ELSE /\ status' = "returned" /\ resCode' = RES_CODE_PANIC
               /\ UNCHANGED <<pc, stack, slots>>]_vars

\* C6: CallObjNativeFuncIC with a receiver whose type id is not the cached one
\* rewrites the opcode byte to CallObjSym and changes nothing else: pc stays,
\* no slot is written, no host function is invoked, and the loop dispatches
\* CallObjSym at the same pc next.
ICRecv == Reg(Arg(1) + Arg(2) + 4 - 1)
ICMiss ==
    /\ AtOp(CodeCallObjNativeFuncIC)
    /\ ~VALUE_IS_POINTER(ICRecv) \/ LiveObj(heap, ICRecv)
    /\ getTypeId(heap, ICRecv) # READ_U16(code, pc, 12)
C6_DeoptRestoresGenericOpcode ==
    [][ICMiss =>
          /\ code' = [code EXCEPT ![pc + 1] = CodeCallObjSym]
          /\ UNCHANGED <<pc, stack, slots, heap, refCounts, hostCalls, curStack, status, resCode>>
          /\ AtOp(CodeCallObjSym)']_vars

C6_Witness ==
    /\ lastOp = "CallObjNativeFuncIC" /\ lastPc = pc
    /\ AtOp(CodeCallObjSym)
    /\ READ_U16(code, pc, 12) = TYPE_LIST
    /\ hostCalls = <<>>

\* C7: ForRange reached with step 0 and counter < end raises a panic instead
\* of jumping back.
C7_ZeroStepPanics ==
    [][(AtOp(CodeForRange) /\ VALUE_AS_NUMBER(Reg(Arg(2))) = 0
          /\ VALUE_AS_NUMBER(Reg(Arg(1))) < VALUE_AS_NUMBER(Reg(Arg(3)))) =>
          status' = "returned" /\ resCode' = RES_CODE_PANIC]_vars

\* C8: ForRangeInit with start = end leaves the counter and user-variable
\* registers and the bytecode as they are and moves pc past the paired
\* ForRange (pc + off16 + 7); the body is never entered.
InForChunk == code[1] = CodeForRangeInit
EmptyRange == InForChunk /\ toF64(slots[4 + 1]) = toF64(slots[5 + 1])
C8_EmptyRangeSkipsLoop ==
    /\ [][(AtOp(CodeForRangeInit) /\ toF64(Reg(Arg(1))) = toF64(Reg(Arg(2)))) =>
            /\ pc' = pc + READ_U16(code, pc, 6) + 7
            /\ slots'[stack + Arg(4) + 1] = Reg(Arg(4))
            /\ slots'[stack + Arg(5) + 1] = Reg(Arg(5))
            /\ code' = code]_vars
    /\ [](EmptyRange => (visited = <<>> /\ (pc = 0 \/ pc = ForEndPc) /\ lastOp # "Copy"))

C8_Witness ==
    /\ EmptyRange /\ lastOp = "ForRangeInit" /\ pc = ForEndPc
    /\ code[ForRangePc + 1] = CodeForRangeReverse

\* C9: for start < end and step > 0 the body is entered with the loop variable
\* start, start + step, ... (all < end), ceil((end - start) / step) times, and
\* the loop then falls through to the instruction after ForRange.
AscStart == VALUE_AS_NUMBER(slots[4 + 1])
AscEnd == VALUE_AS_NUMBER(slots[5 + 1])
AscStep == VALUE_AS_NUMBER(slots[6 + 1])
Ascending ==
    /\ InForChunk
    /\ \A r \in 4 .. 6 : VALUE_IS_NUMBER(slots[r + 1])
    /\ AscStart < AscEnd /\ AscStep > 0
CeilDiv(a, b) == (a + b - 1) \div b
Expected == [i \in 1 .. CeilDiv(AscEnd - AscStart, AscStep) |-> AscStart + (i - 1) * AscStep]
IsPrefix(p, q) == Len(p) <= Len(q) /\ \A i \in 1 .. Len(p) : p[i] = q[i]
C9_AscendingRangeVisits ==
    /\ [](Ascending =>
            /\ IsPrefix(visited, Expected)
            /\ pc = ForEndPc => (visited = Expected /\ slots[9 + 1] = VALUE_NUMBER(Expected[Len(Expected)]))
            /\ pc = ForRangePc => slots[9 + 1] = VALUE_NUMBER(visited[Len(visited)]))
    /\ ((Ascending /\ pc = 0) ~> (Ascending /\ pc = ForEndPc /\ visited = Expected))

C9_Witness ==
    /\ Ascending /\ pc = ForEndPc /\ lastOp = "ForRange"
    /\ visited = <<0, 1, 2, 3, 4>>

\* C10: at most one of VALUE_IS_NUMBER, VALUE_IS_POINTER, VALUE_IS_BOOLEAN and
\* VALUE_IS_NONE holds of a word, and a word that is neither a double nor a
\* pointer gets bits 32..34 as its type id.
Flags(o) == {f \in {"isNumber", "isPointer", "isBoolean", "isNone"} : o[f]}
C10_ClassificationExclusive ==
    probeOut # NoOut =>
        /\ Cardinality(Flags(probeOut)) <= 1
        /\ (~probeOut.isNumber /\ ~probeOut.isPointer) => probeOut.typeId = probe[3] % 8

C10_Witness ==
    /\ probeOut # NoOut
    /\ probeOut.isBoolean /\ probeOut.typeId = TAG_BOOLEAN /\ probe[1] = 2

\* C11: projecting an encoded value gives the value back:
\* VALUE_AS_INTEGER(VALUE_INTEGER(n)) = n for every int32 n,
\* VALUE_AS_BOOLEAN(VALUE_BOOLEAN(b)) = b, and VALUE_IS_NONE(VALUE_NONE).
C11_EncodingRoundTrip ==
    encOut.done =>
        /\ encIn.kind = "integer" => encOut.back = encIn.n
        /\ encIn.kind = "boolean" => encOut.back = encIn.b
        /\ encIn.kind = "none" => encOut.back = TRUE

C11_Witness ==
    /\ encOut.done /\ encIn.kind = "integer"
    /\ encIn.n = MinInt32 /\ encOut.back = MinInt32
    /\ encOut.word = <<0, 32768, 65535, 65535>>

\* C12: AddInt and SubInt on two integer-tagged operands store an
\* integer-tagged Value (type id 7, not a pointer) whose payload is the 32-bit
\* two's-complement sum or difference.
C12_IntOpsStoreIntegers ==
    [][((AtOp(CodeAddInt) \/ AtOp(CodeSubInt))
          /\ IsIntegerTagged(Reg(Arg(1))) /\ IsIntegerTagged(Reg(Arg(2))) /\ status' = "running") =>
          LET l == VALUE_AS_INTEGER(Reg(Arg(1)))
              r == VALUE_AS_INTEGER(Reg(Arg(2)))
              res == slots'[stack + Arg(3) + 1]
          IN  /\ ~VALUE_IS_POINTER(res)
              /\ getTypeId(heap, res) = TAG_INTEGER
              /\ VALUE_AS_INTEGER(res) = IF Op = CodeAddInt THEN WrapAdd(l, r) ELSE WrapSub(l, r)]_vars

\* C13: when the helper of Add, Sub, List or CallObjSym reports a code other
\* than success, execBytecode returns exactly that code at once: pc stays on
\* the failing instruction and no stack slot is written.
HelperCalled ==
    \/ AtOp(CodeList)
    \/ AtOp(CodeCallObjSym)
    \/ (AtOp(CodeAdd) \/ AtOp(CodeSub)) /\ ~VALUE_BOTH_NUMBERS(Reg(Arg(1)), Reg(Arg(2)))
C13_HelperFailureReturnsItsCode ==
    [][(HelperCalled /\ helperCode' # RES_CODE_SUCCESS) =>
          /\ status' = "returned"
          /\ resCode' = helperCode'
          /\ UNCHANGED <<pc, stack, slots>>]_vars

C13_Witness ==
    /\ lastOp = "Sub" /\ status = "returned"
    /\ helperCode = RES_CODE_UNKNOWN /\ resCode = RES_CODE_UNKNOWN
    /\ pc = 0 /\ slots[6 + 1] = VALUE_NONE

\* C14: no call error is swallowed: when resolving or entering the callee of
\* CallSym fails, or the host function of CallNativeFuncIC panics, the
\* dispatch loop returns a non-success code and dispatches nothing further.
C14_CallErrorsReturn ==
    [][((AtOp(CodeCallSym) \/ AtOp(CodeCallNativeFuncIC)) /\ helperCode' \in FailCodes) =>
          status' = "returned" /\ resCode' \in FailCodes]_vars

\* C15: CallNativeFuncIC and a cache-hit CallObjNativeFuncIC with nRet 0 or 1
\* call the host function with the window at stack[startLocal + 4] and
\* numArgs, keep the frame pointer and the caller's slots 1..3, store the
\* returned Value at stack[startLocal] exactly when nRet is 1 and write no
\* slot when it is 0, and advance pc by 11 resp. 14.
NativeHit ==
    \/ AtOp(CodeCallNativeFuncIC)
    \/ /\ AtOp(CodeCallObjNativeFuncIC)
       /\ TypeIdReads(heap, Reg(Arg(1) + Arg(2) + 3)) = {READ_U16(code, pc, 12)}
C15_NativeCallProtocol ==
    [][(NativeHit /\ Arg(3) \in {0, 1}) =>
          /\ Len(hostCalls') = Len(hostCalls) + 1
          /\ hostCalls'[Len(hostCalls')].args = stack + Arg(1) + 4
          /\ hostCalls'[Len(hostCalls')].nargs = Arg(2)
          /\ hostCalls'[Len(hostCalls')].fn =
                READ_U48(code, pc, IF Op = CodeCallNativeFuncIC THEN 5 ELSE 6)
          /\ stack' = stack
          /\ \A i \in 1 .. 3 : slots'[stack + i + 1] = slots[stack + i + 1]
          /\ Arg(3) = 1 =>
                /\ slots'[stack + Arg(1) + 1] \in HostResults
                /\ \A k \in 1 .. StackSize : k # stack + Arg(1) + 1 => slots'[k] = slots[k]
          /\ Arg(3) = 0 => slots' = slots
          /\ pc' = pc + (IF Op = CodeCallNativeFuncIC THEN 11 ELSE 14)
          /\ status' = "running"]_vars

C15_Witness ==
    /\ lastOp = "CallObjNativeFuncIC" /\ status = "running" /\ pc = 14
    /\ Len(hostCalls) = 1 /\ hostCalls[1].fn = ListSizeFn
    /\ hostCalls[1].args = 8 /\ hostCalls[1].nargs = 1
    /\ slots[4 + 1] = VALUE_INTEGER(5)

C15_WitnessFunc ==
    /\ lastOp = "CallNativeFuncIC" /\ status = "running" /\ pc = 11
    /\ Len(hostCalls) = 1 /\ hostCalls[1].fn = HostFn
    /\ hostCalls[1].args = CallStart + 4 /\ hostCalls[1].nargs = 0
    /\ slots[CallStart + 1] = VALUE_NUMBER(1)

\* C16: every required opcode is executable: dispatching Ret0, Call0, Call1,
\* CopyRetainRelease, Retain, ReleaseN, JumpCond, ForRangeReverse, the
\* coroutine, field, box, comparison, arithmetic and bitwise opcodes never
\* reaches zFatal, and Ret0 restores pc and stack from slots 2 and 3.
C16_RequiredOpcodesExecute ==
    [][(Running /\ Op \in RequiredOps) =>
          /\ status' # "fatal"
          /\ Op = CodeRet0 => pc' = WordPtr(Reg(2)) /\ stack' = WordPtr(Reg(3))]_vars

\* C17: from a pc on an instruction boundary, after each implemented
\* instruction that does not fail pc is again on an instruction boundary of
\* the chunk: the opcodes that do not branch advance pc by their encoded
\* length, and the branches move it by their encoded offset.
InstrLen(c, p) ==
    LET op == ByteAt(c, p, 0)
    IN  IF op \in {CodeConstOp, CodeConstI8, CodeConstI8Int, CodeCopy, CodeCopyReleaseDst,
                   CodeCopyRetainSrc, CodeJump} THEN 3
        ELSE IF op \in {CodeTrue, CodeFalse, CodeNone, CodeRelease} THEN 2
        ELSE IF op \in {CodeAdd, CodeSub, CodeAddInt, CodeSubInt, CodeLessInt, CodeList,
                        CodeJumpNotCond, CodeJumpNotNone} THEN 4
        ELSE IF op = CodeSetInitN THEN 2 + ByteAt(c, p, 1)
        ELSE IF op = CodeForRangeInit THEN 8
        ELSE IF op \in {CodeForRange, CodeForRangeReverse} THEN 7
        ELSE IF op \in {CodeCallObjSym, CodeCallObjNativeFuncIC} THEN 14
        ELSE IF op \in {CodeCallSym, CodeCallFuncIC, CodeCallNativeFuncIC} THEN 11
        ELSE 1
RECURSIVE BoundariesFrom(_, _)
BoundariesFrom(c, p) == IF p >= Len(c) THEN {p} ELSE {p} \cup BoundariesFrom(c, p + InstrLen(c, p))
OnBoundary(c, p) == p \in BoundariesFrom(c, 0) /\ p <= Len(c)
FixedLenOps ==
    {CodeConstOp, CodeConstI8, CodeConstI8Int, CodeCopy, CodeCopyReleaseDst, CodeCopyRetainSrc,
     CodeTrue, CodeFalse, CodeNone, CodeRelease, CodeAdd, CodeSub, CodeAddInt, CodeSubInt,
     CodeLessInt, CodeList, CodeSetInitN, CodeCallNativeFuncIC}
ImplementedOps ==
    FixedLenOps \cup {CodeJumpNotCond, CodeJump, CodeJumpNotNone, CodeCallObjSym, CodeCallObjNativeFuncIC,
                      CodeCallSym, CodeCallFuncIC, CodeRet1, CodeForRangeInit, CodeForRange}
PcMove ==
    /\ Op \in FixedLenOps => pc' = pc + InstrLen(code, pc)
    /\ Op = CodeJumpNotCond => pc' \in {pc + 4, pc + READ_U16(code, pc, 1)}
    /\ Op = CodeJumpNotNone => pc' \in {pc + 4, pc + READ_I16(code, pc, 1)}
    /\ Op = CodeJump => pc' = pc + READ_I16(code, pc, 1)
    /\ Op = CodeForRangeInit => pc' \in {pc + 8, pc + READ_U16(code, pc, 6) + 7}
    /\ Op = CodeForRange => pc' \in {pc + 7, pc - READ_U16(code, pc, 5)}
    /\ Op = CodeCallObjSym => pc' = pc + 14
    /\ Op = CodeCallObjNativeFuncIC => pc' \in {pc, pc + 14}
C17_PcStaysOnBoundary ==
    [][(Running /\ OnBoundary(code, pc) /\ Op \in ImplementedOps /\ status' = "running") =>
          OnBoundary(code', pc') /\ PcMove]_vars

\* The same with the returns through a frame whose slot 2 still holds the
\* return address the call stored.
C17_PcStaysOnBoundaryIntactFrames ==
    [][(/\ Running /\ OnBoundary(code, pc) /\ Op \in ImplementedOps /\ status' = "running"
        /\ Op = CodeRet1 => frames # <<>> /\ Reg(2) = PtrWord(frames[Len(frames)].retPc)) =>
          OnBoundary(code', pc') /\ PcMove]_vars

\* C18: the cached handler of a method call site is invoked only when the
\* receiver's full type id equals the type id for which the cache was
\* populated; it then calls the method of that type and moves pc by 14, as
\* the generic CallObjSym does.
C18_CacheHitOnlyForPopulatedType ==
    [][(/\ AtOp(CodeCallObjNativeFuncIC) /\ pc \in DOMAIN cachedFor
        /\ VALUE_IS_POINTER(Reg(Arg(1) + Arg(2) + 3)) => LiveObj(heap, Reg(Arg(1) + Arg(2) + 3))
        /\ Len(hostCalls') > Len(hostCalls)) =>
          /\ getTypeId(heap, Reg(Arg(1) + Arg(2) + 3)) = cachedFor[pc]
          /\ Arg(3) \in {0, 1} => pc' = pc + 14]_vars

\* C19: when its overflow check passes, CallFuncIC sets stack' = stack +
\* startLocal and pc' = the cached callee address, writes byte 0 of callee
\* slot 1 = the requested return count and byte 1 = 0, slot 2 = the address
\* behind the 11-byte call, slot 3 = the caller's frame pointer, and changes
\* no other slot: the entered frame does not have the final-return flag.
C19_CallFuncICEntersFrame ==
    [][(AtOp(CodeCallFuncIC) /\ stack + Arg(1) + Arg(4) < stackEndPtr) =>
          LET new == stack + Arg(1)
          IN  /\ status' = "running"
              /\ stack' = new
              /\ pc' = READ_U48(code, pc, 5)
              /\ slots'[new + 2][1] % 256 = Arg(3)
              /\ (slots'[new + 2][1] \div 256) % 256 = 0
              /\ \A l \in 2 .. 4 : slots'[new + 2][l] = slots[new + 2][l]
              /\ slots'[new + 3] = PtrWord(pc + 11)
              /\ slots'[new + 4] = PtrWord(stack)
              /\ \A k \in 1 .. StackSize : k \notin {new + 2, new + 3, new + 4} => slots'[k] = slots[k]]_vars

C19_Witness ==
    /\ lastOp = "CallFuncIC" /\ status = "running"
    /\ stack = CallStart /\ pc = CalleePc
    /\ slots[CallStart + 1] = PointerTo(Obj1)
    /\ slots[CallStart + 2] = <<1, 7, 7, 7>>
    /\ slots[CallStart + 3] = PtrWord(11)
    /\ slots[CallStart + 4] = PtrWord(0)

\* C20: Ret1 with requested count 1 leaves the value of slot 0 and its rc as
\* they are; with count 0 it releases the value of slot 0 once; any other
\* count aborts, and does not occur when every call of the chunk asks for 0
\* or 1 values.  In both valid cases pc and stack come from slots 2 and 3,
\* and the loop returns Success exactly when bit 0 of the flags byte is set.
CallOps == {CodeCallObjSym, CodeCallObjNativeFuncIC, CodeCallSym, CodeCallFuncIC, CodeCallNativeFuncIC}
VerifiedCalls ==
    \A p \in BoundariesFrom(code, 0) :
       (p < Len(code) /\ ByteAt(code, p, 0) \in CallOps) => ByteAt(code, p, 3) \in {0, 1}
ReleasedOnce(v) ==
    IF VALUE_IS_POINTER(v) /\ LiveObj(heap, v) THEN
       LET a == VALUE_AS_HEAPOBJECT(v)
       IN  /\ refCounts' = refCounts - 1
           /\ \A b \in Addrs \ {a} : heap'[b] = heap[b]
           /\ IF heap[a].rc = 1
              THEN heap'[a].state = "freed" /\ heap'[a].frees = heap[a].frees + 1
              ELSE heap'[a] = [heap[a] EXCEPT !.rc = @ - 1]
    ELSE ~VALUE_IS_POINTER(v) => UNCHANGED <<heap, refCounts>>
C20_Ret1HonoursSlot1 ==
    [][AtOp(CodeRet1) =>
          LET count == Reg(1)[1] % 256
              flag  == (Reg(1)[1] \div 256) % 2 = 1
          IN  /\ count \in {0, 1} =>
                    /\ slots' = slots
                    /\ pc' = WordPtr(Reg(2))
                    /\ stack' = WordPtr(Reg(3))
                    /\ flag => status' = "returned" /\ resCode' = RES_CODE_SUCCESS
                    /\ ~flag => status' = "running" /\ resCode' = resCode
              /\ count = 1 => UNCHANGED <<heap, refCounts>>
              /\ count = 0 => ReleasedOnce(Reg(0))
              /\ count \notin {0, 1} => status' = "fatal" /\ ~VerifiedCalls]_vars

C20_Witness ==
    /\ lastOp = "Ret1" /\ lastPc = CalleePc /\ status = "running"
    /\ pc = 11 /\ stack = 0
    /\ slots[CallStart + 2][1] = 0
    /\ slots[CallStart + 1] = PointerTo(Obj1)
    /\ heap[Obj1].state = "freed" /\ heap[Obj1].frees = 1 /\ refCounts = 0

C20_WitnessKept ==
    /\ lastOp = "Ret1" /\ lastPc = CalleePc /\ status = "running"
    /\ pc = 11 /\ stack = 0
    /\ slots[CallStart + 2][1] = 1
    /\ slots[CallStart + 1] = PointerTo(Obj1)
    /\ heap[Obj1].state = "live" /\ heap[Obj1].rc = 1 /\ refCounts = 1

\* C21: release of a pointer decrements the object's rc by 1 and calls
\* zFreeObject exactly when the decremented rc is 0; release of a Value that
\* is no pointer changes nothing.  Over a sequence of retains and releases
\* of one object of rc 1 in which the releases never outnumber the retains
\* plus one, zFreeObject is called at most once, by the release that takes
\* rc from 1 to 0.
ReleaseStep ==
    rcLog.on /\ rcLog.op = "release" =>
       IF VALUE_IS_POINTER(rcLog.val) THEN
          rcLog.before.heap[Obj1].state = "live" =>
             /\ refCounts = rcLog.before.refCounts - 1
             /\ IF rcLog.before.heap[Obj1].rc - 1 = 0
                THEN /\ heap[Obj1].state = "freed"
                     /\ heap[Obj1].frees = rcLog.before.heap[Obj1].frees + 1
                ELSE heap[Obj1] = [rcLog.before.heap[Obj1] EXCEPT !.rc = @ - 1]
       ELSE heap = rcLog.before.heap /\ refCounts = rcLog.before.refCounts
FreedOnceAtOne ==
    /\ Len(rcLog.freedBy) <= 1
    /\ \A i \in 1 .. Len(rcLog.freedBy) : rcLog.freedBy[i].op = "release" /\ rcLog.freedBy[i].rc = 1
FreedByStep(v) ==
    /\ VALUE_IS_POINTER(v) /\ VALUE_AS_HEAPOBJECT(v) \in Addrs
    /\ heap'[VALUE_AS_HEAPOBJECT(v)].frees > heap[VALUE_AS_HEAPOBJECT(v)].frees
C22_CopyReleaseDstLeavesLiveValue ==
    [][(AtOp(CodeCopyReleaseDst) /\ status' = "running") =>
          /\ \E g \in FreedRcReads :
                /\ heap' = release(Mem, Reg(Arg(2)), g).heap
                /\ refCounts' = release(Mem, Reg(Arg(2)), g).refCounts
          /\ slots' = SetReg(slots, Arg(2), Reg(Arg(1)))
          /\ pc' = pc + 3
          /\ ~FreedByStep(slots'[stack + Arg(2) + 1])]_vars

\* C23: ForRangeInit with start # end: the step register holds |step| and the
\* end register holds end as a number, the counter register and the
\* user-variable register hold start, no other slot changes, the opcode byte
\* at pc + off16 becomes ForRange when start < end and ForRangeReverse when
\* start > end, no other bytecode byte changes, and pc advances by 8.
AbsNum(x) == IF x < 0 THEN 0 - x ELSE x
C23_ForRangeInitEntersLoop ==
    [][(AtOp(CodeForRangeInit) /\ toF64(Reg(Arg(1))) # toF64(Reg(Arg(2)))) =>
          /\ slots'[stack + Arg(3) + 1] = VALUE_NUMBER(AbsNum(toF64(Reg(Arg(3)))))
          /\ slots'[stack + Arg(2) + 1] = VALUE_NUMBER(toF64(Reg(Arg(2))))
          /\ slots'[stack + Arg(4) + 1] = VALUE_NUMBER(toF64(Reg(Arg(1))))
          /\ slots'[stack + Arg(5) + 1] = VALUE_NUMBER(toF64(Reg(Arg(1))))
          /\ \A k \in 1 .. Len(slots) :
                k \notin {stack + Arg(r) + 1 : r \in 2 .. 5} => slots'[k] = slots[k]
          /\ Len(code') = Len(code)
          /\ code'[pc + READ_U16(code, pc, 6) + 1] =
                (IF toF64(Reg(Arg(1))) < toF64(Reg(Arg(2))) THEN CodeForRange ELSE CodeForRangeReverse)
          /\ \A i \in 1 .. Len(code) : i # pc + READ_U16(code, pc, 6) + 1 => code'[i] = code[i]
          /\ pc' = pc + 8]_vars

\* A descending range entered from integer-tagged operands with a negative
\* step: the trailing ForRange was rewritten to ForRangeReverse.
C23_Witness ==
    /\ InForChunk /\ lastOp = "ForRangeInit" /\ lastPc = 0 /\ pc = ForBodyPc
    /\ slots[4 + 1] = VALUE_INTEGER(2) /\ slots[5 + 1] = VALUE_NUMBER(0 - 1)
    /\ slots[6 + 1] = VALUE_NUMBER(2)
    /\ slots[7 + 1] = VALUE_NUMBER(2) /\ slots[8 + 1] = VALUE_NUMBER(2)
    /\ code[ForRangePc + 1] = CodeForRangeReverse

\* C24: SetInitN n r1..rn sets to None exactly the n registers named by its
\* operand bytes pc[2..2+n) and writes no other stack slot; the saved return
\* pc (slot 2) and the saved caller frame pointer (slot 3) of the current
\* frame are overwritten only when named as operands.
NamedRegs == {Arg(i) : i \in 2 .. 1 + Arg(1)}
C24_SetInitNWritesNamedRegisters ==
    [][(AtOp(CodeSetInitN) /\ status' = "running") =>
          \A k \in 1 .. Len(slots) :
             slots'[k] = (IF k - 1 - stack \in NamedRegs THEN VALUE_NONE ELSE slots[k])]_vars

\* C25: SetInitN terminates for every value 0 .. 255 of its count operand: the
\* initialisation loop is left and the next instruction, 2 + count bytes on,
\* is dispatched.
C25_SetInitNTerminates ==
    [][AtOp(CodeSetInitN) => (status' = "running" /\ pc' = pc + 2 + Arg(1))]_vars

\* C26: with the global counter compiled in, every retain adds 1 to
\* vm->refCounts and every release subtracts 1 exactly when it changes an
\* object's rc, so after any sequence of retain and release calls and of Copy,
\* CopyRetainSrc, CopyReleaseDst and Release the change of vm->refCounts is
\* the sum of the changes of the objects' rc; a Value that is no pointer
\* changes neither, and retain(v) followed by release(v) restores the
\* object's rc and vm->refCounts.
RECURSIVE SumRc(_, _)
SumRc(h, S) == IF S = {} THEN 0 ELSE LET a == CHOOSE x \in S : TRUE IN h[a].rc + SumRc(h, S \ {a})
\* Every chunk starts with vm->refCounts equal to the sum of the objects' rc.
CounterTracksRc == refCounts = SumRc(heap, Addrs)
NonPointerIsNoOp ==
    \A v \in RcValues, g \in FreedRcReads :
       ~VALUE_IS_POINTER(v) => retain(Mem, v, g) = Mem /\ release(Mem, v, g) = Mem
RetainReleaseRestores(v) ==
    \A g \in FreedRcReads :
       LET M2 == release(retain(Mem, v, g), v, g)
       IN  /\ M2.refCounts = refCounts
           /\ \A a \in Addrs : M2.heap[a].rc = heap[a].rc
NoUseAfterFree == \A a \in Addrs : heap[a].state = "freed" => heap[a].rc = 0 /\ heap[a].frees = 1
C26_WitnessCalls ==
    /\ rcLog.on /\ rcLog.retains = 3 /\ rcLog.releases = 2 /\ ~rcLog.afterFree
    /\ heap[Obj1].state = "live" /\ heap[Obj1].rc = 2 /\ refCounts = 2

====
